---- MODULE Spec2Model ----
(***************************************************************************)
(* Moderation workflow of the kyro bot: the confirmation views of          *)
(* bot/cogs/mods/cmds.py (ConfirmKickView, ConfirmBanView,                 *)
(* ConfirmUnbanView) and the audit sink of bot/services/mod_logging.py     *)
(* (log_moderation_action).                                                *)
(*                                                                         *)
(* One confirmation session is modelled.  Every button press that the      *)
(* view dispatches becomes a task (an asyncio task running the button's    *)
(* callback); a task is suspended at every await of the callback, and one  *)
(* action of the model is "the awaited call completes with some outcome    *)
(* and the callback runs on to its next await".  Tasks interleave at the   *)
(* awaits only, as under the cooperative scheduler.                        *)
(***************************************************************************)
EXTENDS Naturals, Sequences, FiniteSets, TLC

VARIABLES
    kind,             \* which view the session uses: "kick", "ban" or "unban"
    dbPresent,        \* getattr(bot, "db", None) is not None
    chanCfg,          \* settings.mod_log_channel_id / channel cache
    now,              \* the clock, in seconds
    lastInteraction,  \* when the view last dispatched an interaction
    finished,         \* the view timed out: it dispatches nothing any more
    childrenDisabled, \* child.disabled of the view's buttons (in memory)
    prompt,           \* the prompt message as the platform shows it
    modLog,           \* rows of moderation_logs, in insertion order
    chanPosts,        \* embeds posted to the mod-log channel
    nPress,           \* button presses delivered so far
    faults,           \* awaited calls that raised so far
    task,             \* task[i]: the callback run started by press i
    \* the confession relay (bot/cogs/user/confession.py)
    confTable,        \* the store has a confessions table
    rateCfg,          \* settings.confession_rate_limit_seconds: <<>> is None
    confChan,         \* settings.confession_channel_id / channel cache
    lastConfess,      \* self._last_confess: user -> <<last_ts>>, <<>> if absent
    rateLock,         \* self._rate_lock: its holder and its FIFO of waiters
    confessions,      \* rows of the confessions table, in insertion order
    confPosts,        \* messages sent to the confession channel
    nSub,             \* /confess invocations so far
    sub,              \* sub[i]: the run of confess for invocation i
    nRet,             \* /confessions remove invocations so far
    ret,              \* ret[j]: the run of remove_confession for invocation j
    \* the AFK cog (bot/cogs/user/afk.py)
    afkStatuses,      \* rows of afk_statuses by user_id: <<>> if the user has none
    notices,          \* messages the listener sent to channels
    dms,              \* direct messages the listener sent
    nMsg,             \* messages delivered to on_message so far
    msg,              \* msg[k]: the run of on_message for message k
    nAfkCmd,          \* /afk invocations so far
    afkCmd,           \* afkCmd[c]: the run of /afk for invocation c
    \* the moderation commands (ModerationCog of bot/cogs/mods/cmds.py)
    modRole,          \* settings.mod_role_id: unset, set, or set to a role the guild lacks
    nCmd,             \* /kick and /ban invocations so far
    cmd,              \* cmd[c]: the run of kick or ban for invocation c
    authorized        \* the session's invoker passes _is_moderator at present

relayVars == <<confTable, rateCfg, confChan, lastConfess, rateLock, confessions,
               confPosts, nSub, sub, nRet, ret>>

(* the state of the cogs other than the moderation cog *)
afkVars == <<afkStatuses, notices, dms, nMsg, msg, nAfkCmd, afkCmd>>

(* the state of the moderation commands *)
cmdVars == <<modRole, nCmd, cmd, authorized>>

otherCogs == <<relayVars, afkVars, cmdVars>>

vars == <<kind, dbPresent, chanCfg, now, lastInteraction, finished,
          childrenDisabled, prompt, modLog, chanPosts, nPress, faults, task,
          otherCogs>>

----------------------------------------------------------------------------
(* Bounds of the model *)

MaxPress == 2
MaxFaults == 2
MaxTicks == 1
TickSeconds == 60
FineTick == 40
MaxFineTicks == 2
StartTime == 1000
MaxSubmit == 3
MaxRetract == 2
RelayTick == 150
MaxRelayTicks == 1
MaxRetractSubmit == 2
ConfiguredRate == 150
MaxMessages == 3
MaxAfkCmds == 1
MaxMentionMessages == 2
MaxReactivations == 2
MaxCommands == 1

(* Program constants *)

ViewTimeout == 60
DefaultRateSeconds == 300
MaxContentLen == 1500

Presses == 1..MaxPress

Invoker == "invoker"
Other == "other"
Users == {Invoker, Other}
Buttons == {"confirm", "cancel"}
Kinds == {"kick", "ban", "unban"}

(* Python's None, for the Optional[str] locals *)
None == "<None>"
Truthy(s) == s # None /\ s # ""
OrEmpty(s) == IF Truthy(s) THEN s ELSE ""

----------------------------------------------------------------------------
(* Exceptions: the classes the awaited calls raise, and isinstance *)

Parent(c) ==
    CASE c = "Forbidden" -> "HTTPException"
      [] c = "NotFound" -> "HTTPException"
      [] c = "HTTPException" -> "Exception"
      [] c = "TypeError" -> "Exception"
      [] c = "RuntimeError" -> "Exception"
      [] OTHER -> "BaseException"

RECURSIVE IsInstance(_, _)
IsInstance(exc, cls) ==
    IF exc = cls THEN TRUE
    ELSE IF exc \in {"Exception", "BaseException", "ok"} THEN FALSE
    ELSE IsInstance(Parent(exc), cls)

Repr(exc) == exc \o "()"

ActionExceptions == {"Forbidden", "NotFound", "HTTPException", "RuntimeError"}
ActionOutcomes == {"ok"} \cup ActionExceptions

----------------------------------------------------------------------------
(* The except chain after the platform action call: the clauses are tried  *)
(* in the order they are written, the first matching one gives the note.   *)

ForbiddenNote(k) ==
    IF k = "unban" THEN "Missing permissions to unban (Forbidden)."
    ELSE "Missing permissions or role hierarchy prevents " \o k \o " (Forbidden)."

NotFoundNote(k) ==
    IF k = "unban" THEN "User not found in ban list (maybe already unbanned)."
    ELSE "Member not found / already left the guild."

(* the general clause written before the specific ones *)
ExceptClauses_HttpFirst == <<"HTTPException", "Forbidden", "NotFound", "Exception">>

ExceptClauses == <<"Forbidden", "NotFound", "HTTPException", "Exception">>

RECURSIVE FirstClause(_, _, _)
FirstClause(clauses, exc, i) ==
    IF i > Len(clauses) THEN "uncaught"
    ELSE IF IsInstance(exc, clauses[i]) THEN clauses[i]
    ELSE FirstClause(clauses, exc, i + 1)

(* The class of an outcome of target.kick / target.ban / guild.unban *)
Classify(outcome) ==
    IF outcome = "ok" THEN "success" ELSE FirstClause(ExceptClauses, outcome, 1)

(* kick_note / ban_note / unban_note after the try statement *)
ActionNote(k, outcome) ==
    LET c == Classify(outcome) IN
    CASE c = "success" -> None
      [] c = "Forbidden" -> ForbiddenNote(k)
      [] c = "NotFound" -> NotFoundNote(k)
      [] c = "HTTPException" -> "Discord API error during " \o k \o ": " \o Repr(outcome)
      [] OTHER -> "Unexpected error during " \o k \o ": " \o Repr(outcome)

(* success = True set without regard to the outcome of the call *)
ActionSuccess_Always(outcome) == TRUE

ActionSuccess(outcome) == Classify(outcome) = "success"

(* "; ".join(notes) of the unban view; None when notes is empty *)
RECURSIVE JoinWith(_, _)
JoinWith(sep, parts) ==
    IF Len(parts) = 0 THEN ""
    ELSE IF Len(parts) = 1 THEN parts[1]
    ELSE parts[1] \o sep \o JoinWith(sep, Tail(parts))

UnbanNoteParts(banCheckError, unbanNote) ==
    (IF Truthy(banCheckError) THEN <<"Ban-check: " \o banCheckError>> ELSE <<>>)
    \o (IF Truthy(unbanNote) THEN <<"Unban: " \o unbanNote>> ELSE <<>>)

(* The note argument of the call to log_moderation_action *)
SinkNote(k, banCheckError, note) ==
    IF k = "unban"
    THEN LET notes == UnbanNoteParts(banCheckError, note)
         IN IF Len(notes) > 0 THEN JoinWith("; ", notes) ELSE None
    ELSE note

(* parts of the final message to the moderator, before "\n".join *)
PastTense(k) == IF k = "kick" THEN "kicked" ELSE IF k = "ban" THEN "banned" ELSE "unbanned"

FinalParts(k, targetName, success, note, sinkNote, result) ==
    <<IF success THEN "Successfully " \o PastTense(k) \o " " \o targetName
      ELSE IF k = "ban" THEN "Failed to banned " \o targetName \o " - see log for details"
      ELSE "Failed to " \o k \o " " \o targetName \o " - see log for details">>
    \o (IF k = "unban"
        THEN (IF Truthy(sinkNote) THEN <<sinkNote>> ELSE <<>>)
        ELSE (IF Truthy(note)
              THEN <<"Kick: " \o note \o " - Please report this to a developer">>
              ELSE <<>>))

----------------------------------------------------------------------------
(* Where an exception raised by an awaited call is caught:                 *)
(*   "local"   by a try statement around the call itself,                  *)
(*   "caller"  by the try statement around the call of the audit sink,     *)
(*   "nowhere" by no try statement of the callback: it leaves the callback *)

(* db.execute awaited outside the try statement of the sink *)
CaughtAt_DbUncaught(site) ==
    CASE site \in {"send_message", "edit_message"} -> "nowhere"
      [] site = "db_execute" -> "caller"
      [] OTHER -> "local"

CaughtAt(site) ==
    CASE site \in {"send_message", "edit_message"} -> "nowhere"
      [] OTHER -> "local"

----------------------------------------------------------------------------
(* Tasks *)

NoSink == [db_ok |-> FALSE, db_rowid |-> 0, db_error |-> None,
           modlog_ok |-> FALSE, modlog_error |-> None]

EmptyTask ==
    [pc |-> "idle", user |-> "none", button |-> "none",
     ts |-> 0, targetName |-> "", banEntry |-> FALSE, banCheckError |-> None,
     attempts |-> 0, outcome |-> "none", success |-> FALSE, note |-> None, sinkNote |-> None,
     sink |-> NoSink, modlog_result |-> "unset",
     final |-> <<>>, acked |-> FALSE, noticed |-> FALSE,
     trace |-> <<>>, escaped |-> "none"]

TargetId == "u_target"
MemberName == "<@u_target>"
Reason == "No reason provided"

PromptText(k) == "Confirm " \o k \o "?"
PerformingText(k) == "Performing " \o k
CancelledText(k) == k \o " cancelled."

----------------------------------------------------------------------------
(* State of the confession relay *)

Submissions == 1..MaxSubmit
Retractions == 1..MaxRetract
Submitters == {"u1", "u2"}

(* Optional[int] values: <<>> is None, <<n>> is n *)
NoInt == <<>>
Some(n) == <<n>>

(* the message argument of /confess, by what the handler looks at: its     *)
(* length and whether message.strip() is empty                             *)
Messages ==
    { [len |-> 0, blank |-> TRUE],
      [len |-> 3, blank |-> TRUE],
      [len |-> MaxContentLen, blank |-> FALSE],
      [len |-> MaxContentLen + 1, blank |-> FALSE] }

NoMessage == [len |-> 0, blank |-> TRUE]

(* locals of one run of confess *)
EmptySub ==
    [pc |-> "idle", user |-> "none", message |-> NoMessage, category |-> "none",
     now |-> 0, rate_seconds |-> 0, remaining |-> 0, passed |-> FALSE,
     confession_id |-> 0, posted_msg_id |-> 0, reply |-> "none",
     replied |-> FALSE, trace |-> <<>>, escaped |-> "none", pops |-> 0]

(* locals of one run of remove_confession *)
EmptyRet ==
    [pc |-> "idle", moderator |-> FALSE, confession_id |-> 0, msg_id |-> 0,
     reply |-> "none", replied |-> FALSE, trace |-> <<>>, escaped |-> "none"]

(* the lock free: no holder (0), nobody waiting *)
FreeLock == [holder |-> 0, waiters |-> <<>>]

(* the relay right after UserConfessionsCog.__init__, nothing submitted *)
RelayFresh ==
    /\ lastConfess = [u \in Submitters |-> NoInt]
    /\ rateLock = FreeLock
    /\ confessions = <<>>
    /\ confPosts = <<>>
    /\ nSub = 0
    /\ sub = [i \in Submissions |-> EmptySub]
    /\ nRet = 0
    /\ ret = [j \in Retractions |-> EmptyRet]

(* the relay left alone: the specification of the moderation workflow does *)
(* not run it                                                              *)
(* AFK: the members, a bot account, and the runs of the listener and of    *)
(* the /afk command                                                        *)
Members == {"u1", "u2"}
BotUser == "bot1"
Authors == Members \cup {BotUser}
Inbound == 1..MaxMessages
AfkCmds == 1..(IF MaxAfkCmds > MaxReactivations THEN MaxAfkCmds ELSE MaxReactivations)

(* Optional row of afk_statuses: <<>> is no row *)
NoStatus == <<>>
Status(reason, since) == <<[reason |-> reason, since |-> since]>>

(* locals of one run of on_message *)
EmptyMsg ==
    [pc |-> "idle", author |-> "none", mentions |-> {}, guild |-> FALSE,
     row |-> NoStatus, todo |-> {}, afk_rows |-> {}, trace |-> <<>>]

(* locals of one run of /afk *)
EmptyCmd ==
    [pc |-> "idle", user |-> "none", reason |-> "", ts |-> 0, reply |-> "none",
     replied |-> FALSE, escaped |-> "none"]

(* the listener and the command have not run *)
AfkQuiet ==
    /\ notices = <<>>
    /\ dms = <<>>
    /\ nMsg = 0
    /\ msg = [k \in Inbound |-> EmptyMsg]
    /\ nAfkCmd = 0
    /\ afkCmd = [c \in AfkCmds |-> EmptyCmd]

(* nobody is AFK and nothing happens in the AFK cog *)
AfkIdle ==
    /\ afkStatuses = [u \in Members |-> NoStatus]
    /\ AfkQuiet

(* who invokes a command: whether they hold the role settings.mod_role_id  *)
(* names, whether they hold the permission the cog falls back to, the      *)
(* position of their top role, whether they own the guild, and whether     *)
(* guild.get_member finds them in the cache                                *)
Ranks == 1..2
Callers == [role : BOOLEAN, perm : BOOLEAN, rank : Ranks, owner : BOOLEAN,
            cached : BOOLEAN]
NoCaller == [role |-> FALSE, perm |-> FALSE, rank |-> 1, owner |-> FALSE, cached |-> TRUE]

(* the member a command is aimed at: the invoker, the bot or another       *)
(* member, and the position of its top role                                *)
Targets == [who : {"self", "bot", "member"}, rank : Ranks]

ModRoles == {"unset", "set", "missing"}
Commands == 1..MaxCommands

(* locals of one run of kick or ban *)
EmptyCommand ==
    [pc |-> "idle", kind |-> "kick", guild |-> FALSE, caller |-> NoCaller,
     target |-> [who |-> "member", rank |-> 1], view |-> "none", prompted |-> FALSE,
     reply |-> "none", replied |-> FALSE, escaped |-> "none", trace |-> <<>>]

(* no moderation command has run *)
CmdQuiet ==
    /\ authorized = TRUE
    /\ nCmd = 0
    /\ cmd = [c \in Commands |-> EmptyCommand]

CmdIdle ==
    /\ modRole = "unset"
    /\ CmdQuiet

RelayIdle ==
    /\ confTable = FALSE
    /\ rateCfg = NoInt
    /\ confChan = "unconfigured"
    /\ RelayFresh

Init ==
    /\ RelayIdle
    /\ AfkIdle
    /\ CmdIdle
    /\ kind \in Kinds
    /\ dbPresent \in BOOLEAN
    /\ chanCfg \in {"unconfigured", "cached", "uncached"}
    /\ now = StartTime
    /\ lastInteraction = StartTime
    /\ finished = FALSE
    /\ childrenDisabled = FALSE
    /\ prompt = [content |-> PromptText(kind), disabled |-> FALSE]
    /\ modLog = <<>>
    /\ chanPosts = <<>>
    /\ nPress = 0
    /\ faults = 0
    /\ task = [i \in Presses |-> EmptyTask]

(* An awaited call returns (ok) or raises; at most MaxFaults calls raise *)
Outcome(ok) ==
    /\ ok \/ faults < MaxFaults
    /\ faults' = IF ok THEN faults ELSE faults + 1

(* An exception that no try statement catches ends the callback *)
Escape(t, site) == [t EXCEPT !.pc = "crashed", !.escaped = site]

Log(t, ev) == [t EXCEPT !.trace = Append(@, ev)]

----------------------------------------------------------------------------
(* The clock and the view's timeout (View.__init__(timeout=60.0)): the     *)
(* view expires ViewTimeout seconds after its last dispatched interaction  *)

(* the view created with timeout=None *)
TimerDue_NoTimeout == FALSE

TimerDue == ~finished /\ now - lastInteraction >= ViewTimeout

Tick(d, n) ==
    /\ ~TimerDue
    /\ now + d <= StartTime + n * d
    /\ now' = now + d
    /\ UNCHANGED <<otherCogs, kind, dbPresent, chanCfg, lastInteraction, finished,
                   childrenDisabled, prompt, modLog, chanPosts, nPress, faults, task>>

Timeout ==
    /\ TimerDue
    /\ finished' = TRUE
    /\ UNCHANGED <<otherCogs, kind, dbPresent, chanCfg, now, lastInteraction,
                   childrenDisabled, prompt, modLog, chanPosts, nPress, faults, task>>

----------------------------------------------------------------------------
(* A button press.  The platform delivers a press only while the prompt it *)
(* shows has enabled buttons.  A finished view drops the interaction; a    *)
(* live one starts the button's callback, which runs to its first await.   *)

(* the callback without its identity check *)
StartCallback_NoCheck(u, b) ==
    [EmptyTask EXCEPT !.user = u, !.button = b, !.pc = "at_edit_message"]

StartCallback(u, b) ==
    IF u # Invoker
    THEN [EmptyTask EXCEPT !.user = u, !.button = b, !.pc = "at_send_message"]
    ELSE [EmptyTask EXCEPT !.user = u, !.button = b, !.pc = "at_edit_message"]

Press(u, b) ==
    /\ nPress < MaxPress
    /\ ~prompt.disabled
    /\ ~TimerDue
    /\ nPress' = nPress + 1
    /\ IF finished
       THEN /\ task' = [task EXCEPT ![nPress + 1] =
                          [EmptyTask EXCEPT !.user = u, !.button = b, !.pc = "dropped"]]
            /\ UNCHANGED <<lastInteraction, childrenDisabled>>
       ELSE /\ task' = [task EXCEPT ![nPress + 1] = StartCallback(u, b)]
            /\ lastInteraction' = now
            /\ childrenDisabled' = (childrenDisabled \/ u = Invoker)
    /\ UNCHANGED <<otherCogs, kind, dbPresent, chanCfg, now, finished, prompt, modLog, chanPosts,
                   faults>>

(* interaction.response.send_message(..., ephemeral=True) to a non-invoker *)
SendMessageDone(i, ok) ==
    /\ task[i].pc = "at_send_message"
    /\ Outcome(ok)
    /\ task' = [task EXCEPT ![i] =
                  IF ok THEN [@ EXCEPT !.pc = "done", !.noticed = TRUE]
                  ELSE IF CaughtAt("send_message") = "nowhere"
                  THEN Escape(@, "send_message")
                  ELSE [@ EXCEPT !.pc = "done"]]
    /\ UNCHANGED <<otherCogs, kind, dbPresent, chanCfg, now, lastInteraction, finished,
                   childrenDisabled, prompt, modLog, chanPosts, nPress>>

----------------------------------------------------------------------------
(* The audit sink, log_moderation_action, inlined in the calling task.     *)
(* t.sink holds its locals db_ok, db_rowid, db_error, modlog_ok and        *)
(* modlog_error.                                                           *)

(* After the sink: final_content is built and the follow-up is sent *)
EnterFinal(t) ==
    Log([t EXCEPT !.final = FinalParts(kind, t.targetName, t.success, t.note,
                                       t.sinkNote, t.modlog_result),
                  !.pc = "at_followup"], "followup")

(* return ModLogResult(...) *)
SinkReturn(t) == EnterFinal([t EXCEPT !.modlog_result = "result"])

(* an exception leaves log_moderation_action: the caller's except clause *)
SinkRaise(t) == EnterFinal([t EXCEPT !.modlog_result = "None", !.sink = NoSink])

(* an unconfigured channel that leaves no error behind *)
EnterChannel_Silent(t) ==
    IF chanCfg = "unconfigured"
    THEN SinkReturn(t)
    ELSE IF chanCfg = "cached"
    THEN Log([t EXCEPT !.pc = "at_channel_send"], "channel_send")
    ELSE Log([t EXCEPT !.pc = "at_fetch_channel"], "fetch_channel")

(* 2) Post embed to mod-log channel, up to its first await *)
EnterChannel(t) ==
    IF chanCfg = "unconfigured"
    THEN SinkReturn([t EXCEPT !.sink.modlog_error = "mod_log_channel_id not configured"])
    ELSE IF chanCfg = "cached"
    THEN Log([t EXCEPT !.pc = "at_channel_send"], "channel_send")
    ELSE Log([t EXCEPT !.pc = "at_fetch_channel"], "fetch_channel")

(* The call of the sink, up to its first await: 1) DB insert *)
EnterSink(t) ==
    LET u == Log([t EXCEPT !.sinkNote = SinkNote(kind, t.banCheckError, t.note)], "sink")
    IN IF ~dbPresent
       THEN EnterChannel([u EXCEPT !.sink.db_error = "DB not initialized on bot"])
       ELSE Log([u EXCEPT !.pc = "at_db_execute"], "db_execute")

(* params of the INSERT, with the id the store generates *)
Row(t, id) ==
    [id |-> id, action |-> kind, target_id |-> TargetId, target_name |-> t.targetName,
     moderator_id |-> Invoker, moderator_name |-> Invoker, reason |-> OrEmpty(Reason),
     timestamp |-> IF t.ts # 0 THEN t.ts ELSE now,
     success |-> IF t.success THEN 1 ELSE 0, note |-> OrEmpty(t.sinkNote)]

Capitalize(k) == IF k = "kick" THEN "Kick" ELSE IF k = "ban" THEN "Ban" ELSE "Unban"

Embed(t) ==
    [title |-> "Moderation: " \o Capitalize(kind), target |-> t.targetName,
     moderator |-> Invoker, reason |-> Reason, success |-> t.success,
     note |-> IF Truthy(t.sinkNote) THEN t.sinkNote ELSE None,
     db_note |-> IF Truthy(t.sink.db_error) THEN t.sink.db_error ELSE None]

(* an INSERT that replaces the newest record *)
InsertModLog_Replace(rows, r) ==
    IF rows = <<>> THEN <<r>> ELSE [rows EXCEPT ![Len(rows)] = r]

(* INSERT INTO moderation_logs (...) VALUES (...) *)
InsertModLog(rows, r) == Append(rows, r)

(* await db.execute(_INSERT_MOD_LOG_SQL, params) *)
DbExecuteDone(i, ok) ==
    /\ task[i].pc = "at_db_execute"
    /\ Outcome(ok)
    /\ LET t == task[i]
           rowid == Len(modLog) + 1
       IN IF ok
          THEN /\ modLog' = InsertModLog(modLog, Row(t, rowid))
               /\ task' = [task EXCEPT ![i] =
                             EnterChannel([t EXCEPT !.sink.db_ok = TRUE,
                                                    !.sink.db_rowid = rowid])]
          ELSE /\ modLog' = modLog
               /\ task' = [task EXCEPT ![i] =
                    CASE CaughtAt("db_execute") = "local" ->
                           EnterChannel([t EXCEPT !.sink.db_error = Repr("OperationalError")])
                      [] CaughtAt("db_execute") = "caller" -> SinkRaise(t)
                      [] OTHER -> Escape(t, "db_execute")]
    /\ UNCHANGED <<otherCogs, kind, dbPresent, chanCfg, now, lastInteraction, finished,
                   childrenDisabled, prompt, chanPosts, nPress>>

(* channel = await bot.fetch_channel(mod_channel_id) *)
FetchChannelDone(i, ok) ==
    /\ task[i].pc = "at_fetch_channel"
    /\ Outcome(ok)
    /\ LET t == task[i]
       IN task' = [task EXCEPT ![i] =
            IF ok THEN Log([t EXCEPT !.pc = "at_channel_send"], "channel_send")
            ELSE CASE CaughtAt("fetch_channel") = "local" ->
                        SinkReturn([t EXCEPT !.sink.modlog_error =
                                      "mod_log_channel_id=c_modlog not found"])
                   [] CaughtAt("fetch_channel") = "caller" -> SinkRaise(t)
                   [] OTHER -> Escape(t, "fetch_channel")]
    /\ UNCHANGED <<otherCogs, kind, dbPresent, chanCfg, now, lastInteraction, finished,
                   childrenDisabled, prompt, modLog, chanPosts, nPress>>

(* await channel.send(embed=embed) *)
ChannelSendDone(i, ok) ==
    /\ task[i].pc = "at_channel_send"
    /\ Outcome(ok)
    /\ LET t == task[i]
       IN IF ok
          THEN /\ chanPosts' = Append(chanPosts, Embed(t))
               /\ task' = [task EXCEPT ![i] = SinkReturn([t EXCEPT !.sink.modlog_ok = TRUE])]
          ELSE /\ chanPosts' = chanPosts
               /\ task' = [task EXCEPT ![i] =
                    CASE CaughtAt("channel_send") = "local" ->
                           SinkReturn([t EXCEPT !.sink.modlog_error =
                                         "Failed sending to channel: " \o Repr("HTTPException")])
                      [] CaughtAt("channel_send") = "caller" -> SinkRaise(t)
                      [] OTHER -> Escape(t, "channel_send")]
    /\ UNCHANGED <<otherCogs, kind, dbPresent, chanCfg, now, lastInteraction, finished,
                   childrenDisabled, prompt, modLog, nPress>>

----------------------------------------------------------------------------
(* The confirm and cancel callbacks of the three views *)

(* await target.kick(...) / target.ban(...) / guild.unban(...) is called *)
CallAction(t) ==
    Log([t EXCEPT !.pc = "at_action", !.attempts = @ + 1], "action")

(* the unban attempted whatever the ban lookup said *)
AfterBanCheck_NoLookup(t) == CallAction(t)

(* a lookup that reports a user who is not banned as unbanned *)
AfterBanCheck_Success(t) ==
    IF ~t.banEntry /\ t.banCheckError = None
    THEN EnterSink([t EXCEPT !.success = TRUE])
    ELSE CallAction(t)

(* ConfirmUnbanView.confirm, after the ban lookup *)
AfterBanCheck(t) ==
    IF ~t.banEntry /\ t.banCheckError = None
    THEN EnterSink([t EXCEPT !.success = FALSE, !.note = "User is not banned."])
    ELSE CallAction(t)

(* await interaction.response.edit_message(content=..., view=self) *)
EditMessageDone(i, ok) ==
    /\ task[i].pc = "at_edit_message"
    /\ Outcome(ok)
    /\ LET t == task[i]
       IN IF ok
          THEN /\ prompt' = [content |-> IF t.button = "confirm" THEN PerformingText(kind)
                                         ELSE CancelledText(kind),
                             disabled |-> childrenDisabled]
               /\ task' = [task EXCEPT ![i] =
                    IF t.button = "cancel"
                    THEN Log([t EXCEPT !.pc = "at_disable_edit"], "disable_edit")
                    ELSE IF kind = "unban"
                    THEN [t EXCEPT !.ts = now, !.targetName = "User " \o TargetId,
                                   !.pc = "at_fetch_user"]
                    ELSE CallAction([t EXCEPT !.ts = now, !.targetName = MemberName])]
          ELSE /\ prompt' = prompt
               /\ task' = [task EXCEPT ![i] =
                    IF CaughtAt("edit_message") = "nowhere"
                    THEN Escape(t, "edit_message")
                    ELSE [t EXCEPT !.pc = "done"]]
    /\ UNCHANGED <<otherCogs, kind, dbPresent, chanCfg, now, lastInteraction, finished,
                   childrenDisabled, modLog, chanPosts, nPress>>

(* fetched_user = await self.bot.fetch_user(user_id) *)
FetchUserDone(i, ok) ==
    /\ task[i].pc = "at_fetch_user"
    /\ Outcome(ok)
    /\ task' = [task EXCEPT ![i] =
         IF ok THEN [@ EXCEPT !.targetName = "target#0 (" \o TargetId \o ")",
                              !.pc = "at_fetch_ban"]
         ELSE IF CaughtAt("fetch_user") = "local" THEN [@ EXCEPT !.pc = "at_fetch_ban"]
         ELSE Escape(@, "fetch_user")]
    /\ UNCHANGED <<otherCogs, kind, dbPresent, chanCfg, now, lastInteraction, finished,
                   childrenDisabled, prompt, modLog, chanPosts, nPress>>

(* The except clauses of the ban lookup: the inner try statement around    *)
(* fetch_ban, and the outer one around it                                  *)
InnerBanClauses == <<"TypeError", "NotFound">>
OuterBanClauses == <<"Forbidden", "Exception">>

BanCheckError(exc) ==
    LET c == FirstClause(OuterBanClauses, exc, 1) IN
    IF c = "Forbidden" THEN "Missing permission to read ban list (Forbidden)."
    ELSE "Error checking ban status: " \o Repr(exc)

FetchBanOutcomes == {"entry", "NotFound", "Forbidden", "TypeError", "HTTPException"}

(* ban_entry = await guild.fetch_ban(discord.Object(id=user_id)) *)
FetchBanDone(i, o) ==
    /\ task[i].pc = "at_fetch_ban"
    /\ Outcome(o = "entry")
    /\ LET t == task[i]
           inner == FirstClause(InnerBanClauses, o, 1)
       IN task' = [task EXCEPT ![i] =
            IF o = "entry" THEN AfterBanCheck([t EXCEPT !.banEntry = TRUE])
            ELSE IF inner = "TypeError" THEN [t EXCEPT !.pc = "at_bans"]
            ELSE IF inner = "NotFound" THEN AfterBanCheck([t EXCEPT !.banEntry = FALSE])
            ELSE AfterBanCheck([t EXCEPT !.banEntry = FALSE,
                                         !.banCheckError = BanCheckError(o)])]
    /\ UNCHANGED <<otherCogs, kind, dbPresent, chanCfg, now, lastInteraction, finished,
                   childrenDisabled, prompt, modLog, chanPosts, nPress>>

(* the scan of the list guild.bans() returned, for an entry of user_id *)
RECURSIVE ScanBans(_, _)
ScanBans(bans, uid) ==
    IF Len(bans) = 0 THEN FALSE
    ELSE IF Head(bans) = uid THEN TRUE
    ELSE ScanBans(Tail(bans), uid)

BanLists == {<<"u_else">>, <<"u_else", TargetId>>}
BansExceptions == {"Forbidden", "NotFound"}

(* bans = await guild.bans(), in the except TypeError clause: an exception *)
(* raised here is seen by the outer try statement only                     *)
BansDone(i, o, bans) ==
    /\ task[i].pc = "at_bans"
    /\ Outcome(o = "ok")
    /\ LET t == task[i]
       IN task' = [task EXCEPT ![i] =
            IF o = "ok"
            THEN AfterBanCheck([t EXCEPT !.banEntry = ScanBans(bans, TargetId)])
            ELSE AfterBanCheck([t EXCEPT !.banEntry = FALSE,
                                         !.banCheckError = BanCheckError(o)])]
    /\ UNCHANGED <<otherCogs, kind, dbPresent, chanCfg, now, lastInteraction, finished,
                   childrenDisabled, prompt, modLog, chanPosts, nPress>>

(* the platform action returns or raises *)
ActionDone(i, o) ==
    /\ task[i].pc = "at_action"
    /\ Outcome(o = "ok")
    /\ task' = [task EXCEPT ![i] =
         EnterSink([@ EXCEPT !.outcome = o, !.success = ActionSuccess(o),
                             !.note = ActionNote(kind, o)])]
    /\ UNCHANGED <<otherCogs, kind, dbPresent, chanCfg, now, lastInteraction, finished,
                   childrenDisabled, prompt, modLog, chanPosts, nPress>>

(* await interaction.followup.send(final_content, ephemeral=True) *)
FollowupDone(i, ok) ==
    /\ task[i].pc = "at_followup"
    /\ Outcome(ok)
    /\ task' = [task EXCEPT ![i] =
         IF ok THEN Log([@ EXCEPT !.acked = TRUE, !.pc = "at_disable_edit"], "disable_edit")
         ELSE IF CaughtAt("followup") = "local"
         THEN Log([@ EXCEPT !.pc = "at_fallback_edit"], "fallback_edit")
         ELSE Escape(@, "followup")]
    /\ UNCHANGED <<otherCogs, kind, dbPresent, chanCfg, now, lastInteraction, finished,
                   childrenDisabled, prompt, modLog, chanPosts, nPress>>

(* await interaction.edit_original_response(content=final_content, view=self) *)
FallbackEditDone(i, ok) ==
    /\ task[i].pc = "at_fallback_edit"
    /\ Outcome(ok)
    /\ prompt' = IF ok THEN [content |-> JoinWith("\n", task[i].final),
                             disabled |-> childrenDisabled]
                 ELSE prompt
    /\ task' = [task EXCEPT ![i] =
         IF ok \/ CaughtAt("fallback_edit") = "local"
         THEN Log([@ EXCEPT !.pc = "at_disable_edit"], "disable_edit")
         ELSE Escape(@, "fallback_edit")]
    /\ UNCHANGED <<otherCogs, kind, dbPresent, chanCfg, now, lastInteraction, finished,
                   childrenDisabled, modLog, chanPosts, nPress>>

(* _disable_all: await interaction.edit_original_response(view=self) *)
DisableEditDone(i, ok) ==
    /\ task[i].pc = "at_disable_edit"
    /\ Outcome(ok)
    /\ prompt' = IF ok THEN [prompt EXCEPT !.disabled = childrenDisabled] ELSE prompt
    /\ task' = [task EXCEPT ![i] =
         IF ok \/ CaughtAt("disable_edit") = "local"
         THEN [@ EXCEPT !.pc = "done"]
         ELSE Escape(@, "disable_edit")]
    /\ UNCHANGED <<otherCogs, kind, dbPresent, chanCfg, now, lastInteraction, finished,
                   childrenDisabled, modLog, chanPosts, nPress>>

----------------------------------------------------------------------------

Steps ==
    \/ Timeout
    \/ \E u \in Users, b \in Buttons : Press(u, b)
    \/ \E i \in Presses, ok \in BOOLEAN : SendMessageDone(i, ok)
    \/ \E i \in Presses, ok \in BOOLEAN : EditMessageDone(i, ok)
    \/ \E i \in Presses, ok \in BOOLEAN : FetchUserDone(i, ok)
    \/ \E i \in Presses, o \in FetchBanOutcomes : FetchBanDone(i, o)
    \/ \E i \in Presses, bans \in BanLists : BansDone(i, "ok", bans)
    \/ \E i \in Presses, o \in BansExceptions : BansDone(i, o, <<>>)
    \/ \E i \in Presses, o \in ActionOutcomes : ActionDone(i, o)
    \/ \E i \in Presses, ok \in BOOLEAN : DbExecuteDone(i, ok)
    \/ \E i \in Presses, ok \in BOOLEAN : FetchChannelDone(i, ok)
    \/ \E i \in Presses, ok \in BOOLEAN : ChannelSendDone(i, ok)
    \/ \E i \in Presses, ok \in BOOLEAN : FollowupDone(i, ok)
    \/ \E i \in Presses, ok \in BOOLEAN : FallbackEditDone(i, ok)
    \/ \E i \in Presses, ok \in BOOLEAN : DisableEditDone(i, ok)

Next == Tick(TickSeconds, MaxTicks) \/ Steps

Spec == Init /\ [][Next]_vars

(* The same session on a finer clock, for the timing of the view's expiry; *)
(* the bot has its database and a configured, uncached mod-log channel.    *)
InitTimer == Init /\ dbPresent /\ chanCfg = "uncached"

NextTimer == Tick(FineTick, MaxFineTicks) \/ Steps

SpecTimer == InitTimer /\ [][NextTimer]_vars

----------------------------------------------------------------------------
(* Derived quantities of the session *)

RECURSIVE Sum(_, _)
Sum(f, S) == IF S = {} THEN 0 ELSE LET x == CHOOSE y \in S : TRUE
                                   IN f[x] + Sum(f, S \ {x})

Count(seq, ev) == Cardinality({k \in 1..Len(seq) : seq[k] = ev})
Occurs(seq, ev) == \E k \in 1..Len(seq) : seq[k] = ev

(* presses whose callback the view started *)
Dispatched == {i \in Presses : task[i].pc \notin {"idle", "dropped"}}
InvokerTasks == {i \in Dispatched : task[i].user = Invoker}
ConfirmTasks == {i \in InvokerTasks : task[i].button = "confirm"}
CancelTasks == {i \in InvokerTasks : task[i].button = "cancel"}
OtherTasks == {i \in Dispatched : task[i].user # Invoker}

(* calls of target.kick / target.ban / guild.unban made in the session *)
ActionCalls == Sum([i \in Presses |-> task[i].attempts], Presses)
(* calls of log_moderation_action made in the session *)
SinkCalls == Sum([i \in Presses |-> Count(task[i].trace, "sink")], Presses)
(* follow-up messages delivered to the invoker *)
Acks == Cardinality({i \in Presses : task[i].acked})

----------------------------------------------------------------------------
(* C1: the destructive platform action is invoked at most once in a        *)
(* session, under every interleaving of confirm presses by the invoker.    *)
C1_AtMostOneAction == ActionCalls <= 1

(* C2: a confirm or cancel press by a user other than the invoker leaves   *)
(* the session unchanged: every step of the callback run it starts keeps   *)
(* the buttons, the prompt, the moderation log, the channel posts and the  *)
(* other tasks as they are, makes no platform action and no sink call, and *)
(* ends with the one rejection notice sent to that user.                   *)
C2_NonInvokerInert ==
    [][\A i \in Presses :
         (task'[i].user # Invoker /\ task'[i] # task[i]) =>
            /\ childrenDisabled' = childrenDisabled
            /\ prompt' = prompt
            /\ modLog' = modLog
            /\ chanPosts' = chanPosts
            /\ \A j \in Presses \ {i} : task'[j] = task[j]
            /\ task'[i].attempts = 0
            /\ task'[i].trace = <<>>
            /\ ~task'[i].acked
            /\ task'[i].pc \in {"at_send_message", "done", "crashed", "dropped"}
            /\ (task'[i].pc = "done" <=> task'[i].noticed)]_vars

(* a non-invoker got the rejection notice while the invoker's own confirm  *)
(* was in flight, and one got it on an untouched prompt                    *)
C2_Witness ==
    /\ task[1].user = Invoker /\ task[1].pc = "at_action"
    /\ task[2].user = Other /\ task[2].pc = "done" /\ task[2].noticed

(* C3: after the invoker's first confirm or cancel took effect, no later   *)
(* confirm or cancel press of the session has any effect: at most one      *)
(* callback run of the invoker ever gets past its prompt edit.             *)
Resolved(i) ==
    /\ i \in InvokerTasks
    /\ task[i].pc # "at_edit_message"
    /\ task[i].escaped # "edit_message"

C3_SingleResolution == Cardinality({i \in Presses : Resolved(i)}) <= 1

----------------------------------------------------------------------------
(* C4 as stated: in every session in which a confirm callback of the       *)
(* invoker ran to completion exactly one moderation record exists, and its *)
(* success field is 1 iff the platform action call returned.               *)
C4_ExactlyOneRecord ==
    \A i \in ConfirmTasks :
        task[i].pc = "done" =>
            /\ Len(modLog) = 1
            /\ modLog[1].success = (IF task[i].outcome = "ok" THEN 1 ELSE 0)

(* C4 as amended: every confirm callback of the invoker that ran to        *)
(* completion called the audit sink exactly once; the moderation log holds *)
(* exactly one record of that call when its insert succeeded, with the     *)
(* success field 1 iff the platform action call returned, and no record of *)
(* it when the store is absent or the insert failed.                       *)
C4_OneSinkCallPerConfirm ==
    /\ Len(modLog) = Cardinality({i \in Presses : task[i].sink.db_ok})
    /\ \A i \in ConfirmTasks :
           task[i].pc = "done" =>
               /\ Count(task[i].trace, "sink") = 1
               /\ Count(task[i].trace, "db_execute") = (IF dbPresent THEN 1 ELSE 0)
               /\ task[i].sink.db_ok =>
                     LET r == task[i].sink.db_rowid IN
                     /\ r \in 1..Len(modLog)
                     /\ modLog[r].id = r
                     /\ modLog[r].action = kind
                     /\ modLog[r].success = (IF task[i].outcome = "ok" THEN 1 ELSE 0)
                     /\ \A j \in Presses \ {i} : task[j].sink.db_rowid # r

(* a completed confirm whose action failed and whose record says so, next  *)
(* to a completed confirm whose insert failed and left no record           *)
C4_Witness ==
    /\ task[1].pc = "done" /\ task[1].button = "confirm" /\ task[1].user = Invoker
    /\ task[1].outcome = "Forbidden" /\ task[1].sink.db_ok
    /\ modLog[task[1].sink.db_rowid].success = 0
    /\ task[2].pc = "done" /\ task[2].button = "confirm" /\ task[2].user = Invoker
    /\ ~task[2].sink.db_ok
    /\ Len(modLog) = 1

(* C5 as stated: the invoker's first confirm, once its callback has run,   *)
(* has made exactly one attempt of the platform action, for kick, ban and  *)
(* unban alike, and the invoker's first cancel has made none.              *)
FirstOf(S, i) == i \in S /\ \A j \in S : j >= i

C5_FirstConfirmAttemptsOnce ==
    \A i \in Presses :
        /\ (FirstOf(ConfirmTasks, i) /\ task[i].pc = "done") => task[i].attempts = 1
        /\ (FirstOf(CancelTasks, i) /\ task[i].pc = "done") => task[i].attempts = 0

(* C5 as amended: a confirm callback of the invoker that ran to completion *)
(* has made exactly one attempt of the platform action for kick and ban;   *)
(* for unban it has made exactly one when the ban lookup found an entry or *)
(* failed with an error, and none when the lookup reported the user as not *)
(* banned.  No callback run makes more than one attempt, and a cancel or a *)
(* confirm whose first prompt edit raised makes none.                      *)
C5_AttemptsByLookup ==
    \A i \in Presses :
        /\ task[i].attempts <= 1
        /\ task[i].button # "confirm" => task[i].attempts = 0
        /\ task[i].escaped = "edit_message" => task[i].attempts = 0
        /\ (i \in ConfirmTasks /\ task[i].pc = "done") =>
              task[i].attempts =
                 (IF kind = "unban" /\ ~task[i].banEntry /\ task[i].banCheckError = None
                  THEN 0 ELSE 1)

(* a completed unban confirm that never called guild.unban, and a          *)
(* completed one that did after a failed lookup                            *)
C5_Witness ==
    /\ kind = "unban"
    /\ task[1].pc = "done" /\ task[1].button = "confirm" /\ task[1].attempts = 0
    /\ task[1].note = "User is not banned."
    /\ task[2].pc = "done" /\ task[2].button = "confirm" /\ task[2].attempts = 1
    /\ task[2].banCheckError # None

(* C6 as stated: once more than ViewTimeout seconds have passed since the  *)
(* session was created without a confirm or cancel of the invoker, none is *)
(* dispatched any more, and the session has no platform action and no      *)
(* audit record, then and ever after.                                      *)
C6_FixedDeadline ==
    [][(now - StartTime > ViewTimeout /\ InvokerTasks = {}) =>
          /\ InvokerTasks' = {}
          /\ ActionCalls' = 0
          /\ modLog' = <<>>]_vars

(* C6 as amended: the timeout runs from the last dispatched interaction,   *)
(* a press of any user included.  Once ViewTimeout seconds have passed     *)
(* since then the session is expired: no press is dispatched any more, a   *)
(* press that arrives is dropped and changes nothing; a session that       *)
(* expired before the invoker confirmed or cancelled has no platform       *)
(* action, no audit record, no channel post and its prompt as first shown. *)
C6_ExpiredSessionInert ==
    /\ [][/\ finished => finished'
          /\ ((finished \/ now - lastInteraction >= ViewTimeout) /\ nPress' # nPress) =>
                /\ finished
                /\ task'[nPress'].pc = "dropped"
                /\ \A j \in Presses \ {nPress'} : task'[j] = task[j]
                /\ UNCHANGED <<lastInteraction, childrenDisabled, prompt, modLog, chanPosts>>
         ]_vars
    /\ []((finished /\ \A i \in Presses : task[i].user = Invoker => task[i].pc = "dropped")
            => /\ ActionCalls = 0
               /\ SinkCalls = 0
               /\ modLog = <<>>
               /\ chanPosts = <<>>
               /\ prompt = [content |-> PromptText(kind), disabled |-> FALSE])

(* the view expired unanswered and a confirm press of the invoker arrived  *)
(* after the expiry                                                        *)
C6_Witness ==
    /\ finished
    /\ now - lastInteraction >= ViewTimeout
    /\ task[1].user = Invoker /\ task[1].button = "confirm" /\ task[1].pc = "dropped"
    /\ ActionCalls = 0 /\ modLog = <<>>

----------------------------------------------------------------------------
(* C7: in a confirmed session the platform action attempt, the call of the *)
(* audit sink and the acknowledgment happen in this order and each at most *)
(* once; the sink is called for every outcome of the action; the prompt    *)
(* gets the final text only if the acknowledgment failed; a failure in the *)
(* sink does not prevent the acknowledgment.                               *)
Before(seq, a, b) ==
    \A k, l \in 1..Len(seq) : (seq[k] = a /\ seq[l] = b) => k < l

C7_OrderedOnce ==
    /\ ActionCalls <= 1
    /\ SinkCalls <= 1
    /\ Sum([i \in Presses |-> Count(task[i].trace, "followup")], Presses) <= 1
    /\ \A i, j \in Presses :
           task[i].pc = "at_action" => ~Occurs(task[j].trace, "sink")
    /\ \A i \in ConfirmTasks :
           /\ Before(task[i].trace, "action", "sink")
           /\ Before(task[i].trace, "sink", "followup")
           /\ task[i].outcome # "none" => Occurs(task[i].trace, "sink")
           /\ task[i].modlog_result # "unset" => Occurs(task[i].trace, "followup")
           /\ Occurs(task[i].trace, "fallback_edit") => ~task[i].acked

----------------------------------------------------------------------------
(* The five outcome classes of the claim, by the exception raised *)
ClassOf(outcome) ==
    CASE outcome = "ok" -> "success"
      [] outcome = "Forbidden" -> "forbidden"
      [] outcome = "NotFound" -> "not-found"
      [] outcome = "HTTPException" -> "transport"
      [] OTHER -> "unexpected"

ExpectedNote(k, outcome) ==
    CASE ClassOf(outcome) = "success" -> None
      [] ClassOf(outcome) = "forbidden" -> ForbiddenNote(k)
      [] ClassOf(outcome) = "not-found" -> NotFoundNote(k)
      [] ClassOf(outcome) = "transport" ->
             "Discord API error during " \o k \o ": " \o outcome \o "()"
      [] OTHER -> "Unexpected error during " \o k \o ": " \o outcome \o "()"

(* the notes of the except chain, for every outcome of the call; judged   *)
(* on the sessions before their first press, and on every outcome a task  *)
(* has met                                                                 *)
Classified ==
    /\ nPress = 0 =>
          /\ \A o \in ActionOutcomes : ActionNote(kind, o) = ExpectedNote(kind, o)
          /\ \A o1, o2 \in ActionExceptions :
                 ClassOf(o1) # ClassOf(o2) => ActionNote(kind, o1) # ActionNote(kind, o2)
    /\ \A i \in Presses :
           task[i].outcome # "none" =>
               /\ task[i].note = ExpectedNote(kind, task[i].outcome)
               /\ task[i].success = (ClassOf(task[i].outcome) = "success")

(* C8 as stated: the outcome of the platform action falls in exactly one   *)
(* of five classes, the four failure classes have pairwise distinct notes, *)
(* success has none, and the note handed to the audit sink (and stored in  *)
(* the record) is the note of the class, unchanged.                        *)
C8_NoteVerbatim ==
    /\ Classified
    /\ \A i \in Presses :
           (task[i].outcome # "none" /\ Occurs(task[i].trace, "sink")) =>
               task[i].sinkNote = ExpectedNote(kind, task[i].outcome)

(* C8 as amended: the classification and the notes are as stated; for kick *)
(* and ban the note handed to the sink is the note of the class unchanged; *)
(* for unban it is the note of the class prefixed with "Unban: ", preceded *)
(* by "Ban-check: <error>; " when the ban lookup failed, so that a         *)
(* successful unban after a failed lookup carries the ban-check note.  The *)
(* stored record holds the note handed to the sink, "" when there is none. *)
C8_NoteByKind ==
    /\ Classified
    /\ \A i \in Presses :
           (task[i].outcome # "none" /\ Occurs(task[i].trace, "sink")) =>
               LET n == ExpectedNote(kind, task[i].outcome)
                   e == task[i].banCheckError
               IN /\ kind # "unban" => task[i].sinkNote = n
                  /\ kind = "unban" =>
                        task[i].sinkNote =
                           (IF e # None /\ n # None
                              THEN "Ban-check: " \o e \o "; Unban: " \o n
                            ELSE IF e # None THEN "Ban-check: " \o e
                            ELSE IF n # None THEN "Unban: " \o n
                            ELSE None)
                  /\ task[i].sink.db_ok =>
                        modLog[task[i].sink.db_rowid].note =
                           (IF task[i].sinkNote = None THEN "" ELSE task[i].sinkNote)

(* an unban refused by the platform after a failed ban lookup, recorded    *)
(* with both parts of the note                                             *)
C8_Witness ==
    /\ kind = "unban"
    /\ \E i \in ConfirmTasks :
          /\ task[i].outcome = "Forbidden"
          /\ task[i].banCheckError # None
          /\ task[i].sink.db_ok
          /\ modLog[task[i].sink.db_rowid].note = task[i].sinkNote
          /\ task[i].sinkNote # task[i].note

----------------------------------------------------------------------------
(* C9: log_moderation_action never raises, and its two steps are isolated: *)
(* when the insert fails or the store is absent the failure is reported in *)
(* db_error and the channel post is still attempted; when the channel is   *)
(* unconfigured, unresolvable or the send fails the failure is reported in *)
(* modlog_error and the inserted row stays.                                *)
C9_SinkIsolated ==
    \A i \in Presses :
        task[i].modlog_result # "unset" =>
            LET r == task[i].sink IN
            /\ task[i].modlog_result = "result"
            /\ ~r.db_ok =>
                  /\ Truthy(r.db_error)
                  /\ r.db_rowid = 0
                  /\ ~dbPresent => r.db_error = "DB not initialized on bot"
                  /\ chanCfg = "cached" => Occurs(task[i].trace, "channel_send")
                  /\ chanCfg = "uncached" => Occurs(task[i].trace, "fetch_channel")
            /\ r.db_ok =>
                  /\ r.db_error = None
                  /\ r.db_rowid \in 1..Len(modLog)
                  /\ modLog[r.db_rowid].id = r.db_rowid
            /\ ~r.modlog_ok => Truthy(r.modlog_error)
            /\ chanCfg = "unconfigured" =>
                  (~r.modlog_ok /\ r.modlog_error = "mod_log_channel_id not configured")
            /\ r.modlog_ok =>
                  \E k \in 1..Len(chanPosts) :
                      chanPosts[k].db_note = (IF r.db_ok THEN None ELSE r.db_error)

(* one sink call whose insert raised and whose post went out with the DB   *)
(* note, another whose row stayed although the send failed                 *)
C9_Witness ==
    /\ task[1].modlog_result = "result"
    /\ ~task[1].sink.db_ok /\ task[1].sink.modlog_ok
    /\ task[1].sink.db_error = "OperationalError()"
    /\ task[2].modlog_result = "result"
    /\ task[2].sink.db_ok /\ ~task[2].sink.modlog_ok
    /\ task[2].sink.modlog_error = "Failed sending to channel: HTTPException()"
    /\ Len(modLog) = 1 /\ Len(chanPosts) = 1

----------------------------------------------------------------------------
(* C10: when the persistence step of the audit sink failed during a        *)
(* confirmed kick, ban or unban, the message the invoker gets carries,     *)
(* besides the result of the action and the note of the action, a          *)
(* diagnostic note about the persistence failure.                          *)
ActionLine(t) ==
    IF kind = "unban" THEN t.sinkNote
    ELSE "Kick: " \o t.note \o " - Please report this to a developer"

C10_PersistenceNoteShown ==
    \A i \in ConfirmTasks :
        (task[i].acked /\ Occurs(task[i].trace, "db_execute") /\ ~task[i].sink.db_ok) =>
            \E k \in 2..Len(task[i].final) : task[i].final[k] # ActionLine(task[i])


----------------------------------------------------------------------------
(* The confession relay: UserConfessionsCog.confess.  As for the views,    *)
(* one action is "the awaited call completes and the handler runs on to    *)
(* its next await".                                                        *)

(* variables of the moderation workflow that the relay leaves alone *)
viewVars == <<kind, chanCfg, lastInteraction, finished, childrenDisabled,
              prompt, modLog, chanPosts, nPress, task>>

sessionVars == <<viewVars, cmdVars>>

Categories == {"love", "rant"}

(* _get_rate_limit_seconds *)
RateLimitSeconds == IF rateCfg = NoInt THEN DefaultRateSeconds ELSE rateCfg[1]

(* asyncio.Lock: acquire returns at once when the lock is free and nobody  *)
(* waits, else the caller queues; release hands the lock to the first      *)
(* waiter, which goes on when it is scheduled                              *)
LockIsFree(lock) == lock.holder = 0 /\ lock.waiters = <<>>
Enqueue(lock, who) == [lock EXCEPT !.waiters = Append(@, who)]
Release(lock) ==
    IF lock.waiters = <<>> THEN FreeLock
    ELSE [holder |-> Head(lock.waiters), waiters |-> Tail(lock.waiters)]

(* the handler is about to send `reply` with interaction.response *)
Reply(t, reply) == [t EXCEPT !.pc = "at_reply", !.reply = reply]

(* a rollback that leaves the map as it is *)
Pop_Keep(last, u) == last

(* self._last_confess.pop(interaction.user.id, None) *)
Pop(last, u) == [last EXCEPT ![u] = NoInt]

(* `async with self._rate_lock: self._last_confess.pop(user.id, None)`,    *)
(* then the reply that follows it; st = [t, lock, last]                    *)
Rollback(i, st, reply) ==
    IF LockIsFree(st.lock)
    THEN [t |-> Reply(Log(st.t, "rollback"), reply),
          lock |-> st.lock,
          last |-> Pop(st.last, st.t.user)]
    ELSE [t |-> [st.t EXCEPT !.pc = "wait_rollback", !.reply = reply],
          lock |-> Enqueue(st.lock, i),
          last |-> st.last]

(* after the reservation: lines 97-105, up to the await of the insert *)
AfterReserve(i, st) ==
    IF ~dbPresent
    THEN Rollback(i, st, "db_unavailable")
    ELSE [st EXCEPT !.t = Log([@ EXCEPT !.pc = "at_insert"], "insert")]

(* the reservation that forgets to record the time *)
Reserve_NoWrite(last, u, ts) == last

(* self._last_confess[interaction.user.id] = now *)
Reserve(last, u, ts) == [last EXCEPT ![u] = Some(ts)]

(* history: the number of rollbacks that have removed the entry of         *)
(* submitter u so far                                                      *)
Pops(u) ==
    Cardinality({k \in Submissions : sub[k].user = u /\ Occurs(sub[k].trace, "rollback")})

(* a check that lets the rejected submission go on to the insert *)
CheckAndReserve_RejectLate(i, st) ==
    LET t == st.t
        prev == st.last[t.user]
    IN IF prev # NoInt /\ (t.now - prev[1]) < t.rate_seconds
       THEN [st EXCEPT !.t = Log([t EXCEPT !.pc = "at_insert", !.reply = "rate_limited"],
                                 "insert"),
                       !.lock = Release(st.lock)]
       ELSE AfterReserve(i,
                [t |-> Log([t EXCEPT !.passed = TRUE, !.pops = Pops(t.user)], "reserve"),
                 lock |-> Release(st.lock),
                 last |-> Reserve(st.last, t.user, t.now)])

(* a check that records the time of a rejected attempt *)
CheckAndReserve_ExtendWindow(i, st) ==
    LET t == st.t
        prev == st.last[t.user]
    IN IF prev # NoInt /\ (t.now - prev[1]) < t.rate_seconds
       THEN [st EXCEPT !.t = Log([Reply(t, "rate_limited") EXCEPT
                                    !.remaining = t.rate_seconds - (t.now - prev[1])],
                                 "reject"),
                       !.last = Reserve(st.last, t.user, t.now)]
       ELSE AfterReserve(i,
                [t |-> Log([t EXCEPT !.passed = TRUE, !.pops = Pops(t.user)], "reserve"),
                 lock |-> Release(st.lock),
                 last |-> Reserve(st.last, t.user, t.now)])

(* the body of the first `async with self._rate_lock`, entered by task i   *)
(* holding the lock: lines 85-95                                           *)
CheckAndReserve(i, st) ==
    LET t == st.t
        prev == st.last[t.user]
    IN IF prev # NoInt /\ (t.now - prev[1]) < t.rate_seconds
       THEN [st EXCEPT !.t = Log([Reply(t, "rate_limited") EXCEPT
                                    !.remaining = t.rate_seconds - (t.now - prev[1])],
                                 "reject")]
       ELSE AfterReserve(i,
                [t |-> Log([t EXCEPT !.passed = TRUE, !.pops = Pops(t.user)], "reserve"),
                 lock |-> Release(st.lock),
                 last |-> Reserve(st.last, t.user, t.now)])

(* validation of the message: lines 75-80 *)
Validate_LenOnly(m) ==
    IF m.len = 0 THEN "empty" ELSE IF m.len > MaxContentLen THEN "too_long" ELSE "ok"

Validate(m) ==
    IF m.len = 0 \/ m.blank THEN "empty"
    ELSE IF m.len > MaxContentLen THEN "too_long"
    ELSE "ok"

(* /confess invoked: lines 74-95, up to the first await that suspends *)
Confess(u, c, m, n) ==
    /\ nSub < n
    /\ LET i == nSub + 1
           t0 == [EmptySub EXCEPT !.user = u, !.message = m, !.category = c]
       IN /\ nSub' = i
          /\ IF Validate(m) # "ok"
             THEN /\ sub' = [sub EXCEPT ![i] = Reply(t0, Validate(m))]
                  /\ UNCHANGED <<rateLock, lastConfess>>
             ELSE LET t1 == [t0 EXCEPT !.rate_seconds = RateLimitSeconds, !.now = now]
                  IN IF LockIsFree(rateLock)
                     THEN LET st == CheckAndReserve(i,
                                       [t |-> t1,
                                        lock |-> [rateLock EXCEPT !.holder = i],
                                        last |-> lastConfess])
                          IN /\ sub' = [sub EXCEPT ![i] = st.t]
                             /\ rateLock' = st.lock
                             /\ lastConfess' = st.last
                     ELSE /\ sub' = [sub EXCEPT ![i] = [t1 EXCEPT !.pc = "wait_lock"]]
                          /\ rateLock' = Enqueue(rateLock, i)
                          /\ UNCHANGED lastConfess
    /\ UNCHANGED <<sessionVars, afkVars, dbPresent, now, faults, confTable, rateCfg, confChan,
                   confessions, confPosts, nRet, ret>>

(* a waiter of the lock is scheduled with the lock handed to it *)
LockGranted(i) ==
    /\ sub[i].pc \in {"wait_lock", "wait_rollback"}
    /\ rateLock.holder = i
    /\ LET st0 == [t |-> sub[i], lock |-> rateLock, last |-> lastConfess]
           st == IF sub[i].pc = "wait_lock"
                 THEN CheckAndReserve(i, st0)
                 ELSE [t |-> Reply(Log(sub[i], "rollback"), sub[i].reply),
                       lock |-> Release(rateLock),
                       last |-> Pop(lastConfess, sub[i].user)]
       IN /\ sub' = [sub EXCEPT ![i] = st.t]
          /\ rateLock' = st.lock
          /\ lastConfess' = st.last
    /\ UNCHANGED <<sessionVars, afkVars, dbPresent, now, faults, confTable, rateCfg, confChan,
                   confessions, confPosts, nSub, nRet, ret>>

(* parameters that put the submitter where the category belongs *)
InsertParams_Identified(t) ==
    [content |-> t.message, category |-> t.user, timestamp |-> t.now]

(* the parameters of the INSERT: (message, category.value, now), line 105 *)
InsertParams(t) ==
    [content |-> t.message, category |-> t.category, timestamp |-> t.now]

(* the row an INSERT INTO confessions (content, category, timestamp)       *)
(* creates: the other columns take the defaults of the table               *)
NewConfession(id, t) ==
    LET p == InsertParams(t)
    IN [id |-> id, content |-> p.content, category |-> p.category,
        timestamp |-> p.timestamp, message_id |-> 0, deleted |-> FALSE]

(* after the insert: lines 115-147, up to the next await *)
AfterInsert(t) ==
    CASE confChan = "unconfigured" -> Reply(t, "not_configured")
      [] confChan = "uncached" -> Log([t EXCEPT !.pc = "at_fetch_channel"], "fetch_channel")
      [] confChan = "cached" -> Log([t EXCEPT !.pc = "at_post"], "post")
      [] OTHER -> Reply(t, "posted")

(* await db.execute(_INSERT_CONFESSION_SQL, ...): lines 104-113 *)
InsertDone(i, ok) ==
    /\ sub[i].pc = "at_insert"
    /\ IF confTable THEN Outcome(ok) ELSE (~ok /\ UNCHANGED faults)
    /\ IF ok
       THEN LET id == Len(confessions) + 1
            IN /\ confessions' = Append(confessions, NewConfession(id, sub[i]))
               /\ sub' = [sub EXCEPT ![i] = AfterInsert([@ EXCEPT !.confession_id = id])]
               /\ UNCHANGED <<rateLock, lastConfess>>
       ELSE LET st == Rollback(i, [t |-> sub[i], lock |-> rateLock, last |-> lastConfess],
                               "failed_save")
            IN /\ sub' = [sub EXCEPT ![i] = st.t]
               /\ rateLock' = st.lock
               /\ lastConfess' = st.last
               /\ UNCHANGED confessions
    /\ UNCHANGED <<sessionVars, afkVars, dbPresent, now, confTable, rateCfg, confChan,
                   confPosts, nSub, nRet, ret>>

(* await self.bot.fetch_channel(ch_id): lines 126-130, then 132-147 *)
ConfFetchChannelDone(i, ok) ==
    /\ sub[i].pc = "at_fetch_channel"
    /\ Outcome(ok)
    /\ sub' = [sub EXCEPT ![i] =
         IF ok THEN Log([@ EXCEPT !.pc = "at_post"], "post") ELSE Reply(@, "posted")]
    /\ UNCHANGED <<sessionVars, afkVars, dbPresent, now, confTable, rateCfg, confChan, lastConfess,
                   rateLock, confessions, confPosts, nSub, nRet, ret>>

MessageIdBase == 100

(* await channel.send(embed=embed): lines 141-150 *)
PostDone(i, ok) ==
    /\ sub[i].pc = "at_post"
    /\ Outcome(ok)
    /\ IF ok
       THEN LET mid == MessageIdBase + Len(confPosts) + 1
            IN /\ confPosts' = Append(confPosts,
                     [id |-> mid, confession_id |-> sub[i].confession_id,
                      content |-> sub[i].message, category |-> sub[i].category,
                      present |-> TRUE])
               /\ sub' = [sub EXCEPT ![i] =
                     IF @.confession_id # 0
                     THEN Log([@ EXCEPT !.posted_msg_id = mid, !.pc = "at_backfill"], "backfill")
                     ELSE Reply([@ EXCEPT !.posted_msg_id = mid], "posted")]
       ELSE /\ sub' = [sub EXCEPT ![i] = Reply(@, "posted")]
            /\ UNCHANGED confPosts
    /\ UNCHANGED <<sessionVars, afkVars, dbPresent, now, confTable, rateCfg, confChan, lastConfess,
                   rateLock, confessions, nSub, nRet, ret>>

(* an update that forgets its WHERE clause *)
SetMessageId_AllRows(rows, id, mid) ==
    [k \in 1..Len(rows) |-> [rows[k] EXCEPT !.message_id = mid]]

(* UPDATE confessions SET message_id = ? WHERE id = ? *)
SetMessageId(rows, id, mid) ==
    [k \in 1..Len(rows) |-> IF rows[k].id = id THEN [rows[k] EXCEPT !.message_id = mid]
                            ELSE rows[k]]

(* await db.execute(_UPDATE_CONFESSION_MESSAGE_SQL, ...): lines 150-154 *)
BackfillDone(i, ok) ==
    /\ sub[i].pc = "at_backfill"
    /\ Outcome(ok)
    /\ confessions' = IF ok
                      THEN SetMessageId(confessions, sub[i].confession_id, sub[i].posted_msg_id)
                      ELSE confessions
    /\ sub' = [sub EXCEPT ![i] = Reply(@, "posted")]
    /\ UNCHANGED <<sessionVars, afkVars, dbPresent, now, confTable, rateCfg, confChan, lastConfess,
                   rateLock, confPosts, nSub, nRet, ret>>

(* only the last send_message of confess is inside a try statement *)
ReplyCaught(reply) == reply = "posted"

(* await interaction.response.send_message(...) of confess; the reply to a *)
(* rate-limited submission is awaited inside the `async with`              *)
ReplyDone(i, ok) ==
    /\ sub[i].pc = "at_reply"
    /\ Outcome(ok)
    /\ sub' = [sub EXCEPT ![i] =
         IF ok THEN [@ EXCEPT !.pc = "done", !.replied = TRUE]
         ELSE IF ReplyCaught(@.reply) THEN [@ EXCEPT !.pc = "done"]
         ELSE Escape(@, "send_message")]
    /\ rateLock' = IF rateLock.holder = i THEN Release(rateLock) ELSE rateLock
    /\ UNCHANGED <<sessionVars, afkVars, dbPresent, now, confTable, rateCfg, confChan, lastConfess,
                   confessions, confPosts, nSub, nRet, ret>>


----------------------------------------------------------------------------
(* The confession relay: UserConfessionsCog.remove_confession *)

RReply(t, reply) == [t EXCEPT !.pc = "at_reply", !.reply = reply]

(* SELECT ... FROM confessions WHERE id = ?: the rows found *)
SelectConfession(rows, id) == {k \in 1..Len(rows) : rows[k].id = id}

(* /confessions remove invoked: lines 168-178 *)
RemoveConfession(mod, cid) ==
    /\ nRet < MaxRetract
    /\ cid <= nSub
    /\ nRet' = nRet + 1
    /\ LET t0 == [EmptyRet EXCEPT !.moderator = mod, !.confession_id = cid]
       IN ret' = [ret EXCEPT ![nRet + 1] =
            IF ~mod THEN RReply(t0, "no_permission")
            ELSE IF ~dbPresent THEN RReply(t0, "db_unavailable")
            ELSE Log([t0 EXCEPT !.pc = "at_select"], "select")]
    /\ UNCHANGED <<sessionVars, afkVars, dbPresent, now, faults, confTable, rateCfg, confChan,
                   lastConfess, rateLock, confessions, confPosts, nSub, sub>>

(* UPDATE confessions SET deleted = 1 WHERE id = ?, as a DELETE *)
MarkDeleted_Remove(rows, id) == SelectSeq(rows, LAMBDA r : r.id # id)

(* UPDATE confessions SET deleted = 1 WHERE id = ? *)
MarkDeleted(rows, id) ==
    [k \in 1..Len(rows) |-> IF rows[k].id = id THEN [rows[k] EXCEPT !.deleted = TRUE]
                            ELSE rows[k]]

(* the deletion of the posted message skipped: straight to the UPDATE *)
AfterSelect_NoDelete(t) == Log([t EXCEPT !.pc = "at_mark"], "mark")

(* after the row was read: lines 188-208, up to the next await *)
AfterSelect(t) ==
    IF t.msg_id # 0 /\ confChan = "cached"
    THEN Log([t EXCEPT !.pc = "at_fetch_message"], "fetch_message")
    ELSE IF t.msg_id # 0 /\ confChan = "uncached"
    THEN Log([t EXCEPT !.pc = "at_fetch_channel"], "fetch_channel")
    ELSE Log([t EXCEPT !.pc = "at_mark"], "mark")

(* await db.fetchone(_SELECT_CONFESSION_SQL, ...): lines 177-186 *)
SelectDone(j, ok) ==
    /\ ret[j].pc = "at_select"
    /\ IF confTable THEN Outcome(ok) ELSE (~ok /\ UNCHANGED faults)
    /\ LET found == SelectConfession(confessions, ret[j].confession_id)
       IN ret' = [ret EXCEPT ![j] =
            IF ~ok THEN RReply(@, "query_failed")
            ELSE IF found = {} THEN RReply(@, "not_found")
            ELSE AfterSelect([@ EXCEPT !.msg_id =
                                 confessions[CHOOSE k \in found : TRUE].message_id])]
    /\ UNCHANGED <<sessionVars, afkVars, dbPresent, now, confTable, rateCfg, confChan,
                   lastConfess, rateLock, confessions, confPosts, nSub, sub, nRet>>

(* await self.bot.fetch_channel(ch_id): line 194 *)
RetFetchChannelDone(j, ok) ==
    /\ ret[j].pc = "at_fetch_channel"
    /\ Outcome(ok)
    /\ ret' = [ret EXCEPT ![j] =
         IF ok THEN Log([@ EXCEPT !.pc = "at_fetch_message"], "fetch_message")
         ELSE Log([@ EXCEPT !.pc = "at_mark"], "mark")]
    /\ UNCHANGED <<sessionVars, afkVars, dbPresent, now, confTable, rateCfg, confChan,
                   lastConfess, rateLock, confessions, confPosts, nSub, sub, nRet>>

(* is the message still in the channel *)
Posted(mid) == \E k \in 1..Len(confPosts) : confPosts[k].id = mid /\ confPosts[k].present

(* what fetch_message and delete can answer for message mid *)
MessageOutcomes(mid) == IF Posted(mid) THEN {"ok", "HTTPException"} ELSE {"NotFound"}

(* await ch.fetch_message(int(msg_id)): lines 196-203 *)
FetchMessageDone(j, o) ==
    /\ ret[j].pc = "at_fetch_message"
    /\ o \in MessageOutcomes(ret[j].msg_id)
    /\ Outcome(o # "HTTPException")
    /\ ret' = [ret EXCEPT ![j] =
         IF o = "ok" THEN Log([@ EXCEPT !.pc = "at_delete"], "delete")
         ELSE Log(Log([@ EXCEPT !.pc = "at_mark"], o), "mark")]
    /\ UNCHANGED <<sessionVars, afkVars, dbPresent, now, confTable, rateCfg, confChan,
                   lastConfess, rateLock, confessions, confPosts, nSub, sub, nRet>>

(* await m.delete(): lines 198-203 *)
DeleteDone(j, o) ==
    /\ ret[j].pc = "at_delete"
    /\ o \in MessageOutcomes(ret[j].msg_id)
    /\ Outcome(o # "HTTPException")
    /\ confPosts' = IF o = "ok"
                    THEN [k \in 1..Len(confPosts) |->
                            IF confPosts[k].id = ret[j].msg_id
                            THEN [confPosts[k] EXCEPT !.present = FALSE]
                            ELSE confPosts[k]]
                    ELSE confPosts
    /\ ret' = [ret EXCEPT ![j] =
         IF o = "ok" THEN Log([@ EXCEPT !.pc = "at_mark"], "mark")
         ELSE Log(Log([@ EXCEPT !.pc = "at_mark"], o), "mark")]
    /\ UNCHANGED <<sessionVars, afkVars, dbPresent, now, confTable, rateCfg, confChan,
                   lastConfess, rateLock, confessions, nSub, sub, nRet>>

(* await db.execute(_MARK_CONFESSION_DELETED_SQL, ...): lines 207-214 *)
MarkDone(j, ok) ==
    /\ ret[j].pc = "at_mark"
    /\ IF confTable THEN Outcome(ok) ELSE (~ok /\ UNCHANGED faults)
    /\ confessions' = IF ok THEN MarkDeleted(confessions, ret[j].confession_id)
                      ELSE confessions
    /\ ret' = [ret EXCEPT ![j] = RReply(@, IF ok THEN "marked" ELSE "mark_failed")]
    /\ UNCHANGED <<sessionVars, afkVars, dbPresent, now, confTable, rateCfg, confChan,
                   lastConfess, rateLock, confPosts, nSub, sub, nRet>>

(* await interaction.response.send_message(...) of remove_confession: no   *)
(* try statement around any of them                                        *)
RetReplyDone(j, ok) ==
    /\ ret[j].pc = "at_reply"
    /\ Outcome(ok)
    /\ ret' = [ret EXCEPT ![j] =
         IF ok THEN [@ EXCEPT !.pc = "done", !.replied = TRUE]
         ELSE Escape(@, "send_message")]
    /\ UNCHANGED <<sessionVars, afkVars, dbPresent, now, confTable, rateCfg, confChan,
                   lastConfess, rateLock, confessions, confPosts, nSub, sub, nRet>>

----------------------------------------------------------------------------
(* The relay on its own: the bot has no confirmation session open *)

ViewIdle ==
    /\ kind = "kick"
    /\ chanCfg = "unconfigured"
    /\ lastInteraction = StartTime
    /\ finished = TRUE
    /\ childrenDisabled = FALSE
    /\ prompt = [content |-> PromptText("kick"), disabled |-> TRUE]
    /\ modLog = <<>>
    /\ chanPosts = <<>>
    /\ nPress = 0
    /\ task = [i \in Presses |-> EmptyTask]

SessionIdle ==
    /\ ViewIdle
    /\ CmdIdle

RateSettings == {NoInt, Some(ConfiguredRate)}
ConfChannels == {"unconfigured", "cached", "uncached", "not_messageable"}

InitRelay ==
    /\ SessionIdle
    /\ dbPresent \in BOOLEAN
    /\ now = StartTime
    /\ faults = 0
    /\ confTable \in BOOLEAN
    /\ rateCfg \in RateSettings
    /\ confChan \in ConfChannels
    /\ RelayFresh
    /\ AfkIdle

(* the awaits of confess *)
ConfessSteps ==
    \/ \E i \in Submissions : LockGranted(i)
    \/ \E i \in Submissions, ok \in BOOLEAN : InsertDone(i, ok)
    \/ \E i \in Submissions, ok \in BOOLEAN : ConfFetchChannelDone(i, ok)
    \/ \E i \in Submissions, ok \in BOOLEAN : PostDone(i, ok)
    \/ \E i \in Submissions, ok \in BOOLEAN : BackfillDone(i, ok)
    \/ \E i \in Submissions, ok \in BOOLEAN : ReplyDone(i, ok)

(* the awaits of remove_confession *)
RetractSteps ==
    \/ \E j \in Retractions, ok \in BOOLEAN : SelectDone(j, ok)
    \/ \E j \in Retractions, ok \in BOOLEAN : RetFetchChannelDone(j, ok)
    \/ \E j \in Retractions, o \in {"ok", "NotFound", "HTTPException"} : FetchMessageDone(j, o)
    \/ \E j \in Retractions, o \in {"ok", "NotFound", "HTTPException"} : DeleteDone(j, o)
    \/ \E j \in Retractions, ok \in BOOLEAN : MarkDone(j, ok)
    \/ \E j \in Retractions, ok \in BOOLEAN : RetReplyDone(j, ok)

ValidMessage == [len |-> MaxContentLen, blank |-> FALSE]

(* The rate limiter: valid submissions of two submitters under every       *)
(* configuration of the store, the window and the channel, on a clock      *)
NextRelay ==
    \/ Tick(RelayTick, MaxRelayTicks)
    \/ \E u \in Submitters : Confess(u, "love", ValidMessage, MaxSubmit)
    \/ ConfessSteps

SpecRelay == InitRelay /\ [][NextRelay]_vars

(* The intake: submissions of every kind of content and category, with    *)
(* the store connected and an uncached channel                             *)
InitIntake ==
    InitRelay /\ dbPresent /\ rateCfg = NoInt /\ confChan = "uncached"

NextIntake ==
    \/ \E u \in Submitters, c \in Categories, m \in Messages : Confess(u, c, m, MaxSubmit)
    \/ ConfessSteps

SpecIntake == InitIntake /\ [][NextIntake]_vars

(* The quota: submissions of every kind of content by two submitters on a  *)
(* clock, with the default window                                          *)
NextQuota ==
    \/ Tick(RelayTick, MaxRelayTicks)
    \/ \E u \in Submitters, m \in Messages : Confess(u, "love", m, MaxSubmit)
    \/ ConfessSteps

SpecQuota == InitIntake /\ [][NextQuota]_vars

(* Retraction: up to MaxRetractSubmit submissions of one submitter and the *)
(* moderators' retractions of them                                         *)
NextRetract ==
    \/ Confess("u1", "love", ValidMessage, MaxRetractSubmit)
    \/ ConfessSteps
    \/ \E mod \in BOOLEAN, cid \in Submissions : RemoveConfession(mod, cid)
    \/ RetractSteps

SpecRetract == InitRelay /\ [][NextRetract]_vars

----------------------------------------------------------------------------
(* Derived quantities of the relay *)

(* the submission passed the rate-limit check and made its reservation *)
Passed(i) == sub[i].passed
(* the submission was rejected by the rate limiter *)
RateLimited(i) == sub[i].reply = "rate_limited"
(* the submission's row was inserted *)
Persisted(i) == sub[i].confession_id # 0
(* the submission reached the await of the insert *)
ReachedInsert(i) == Occurs(sub[i].trace, "insert")

(* i and j are submissions of one submitter, i invoked before j, and no    *)
(* submission of that submitter between them passed the check              *)
Consecutive(i, j) ==
    /\ i < j
    /\ sub[i].user = sub[j].user
    /\ \A k \in Submissions : (i < k /\ k < j /\ sub[k].user = sub[i].user) => ~Passed(k)

(* C11: for two submissions of one submitter at t0 and t0 + d, the first   *)
(* accepted and persisted: when d < W the second is rejected with          *)
(* remaining wait W - d, when d >= W it is accepted.                       *)
C11_RateWindow ==
    \A i, j \in Submissions :
        (Consecutive(i, j) /\ Persisted(i) /\ (Passed(j) \/ RateLimited(j))) =>
            LET d == sub[j].now - sub[i].now
                W == sub[j].rate_seconds
            IN IF d < W
               THEN RateLimited(j) /\ sub[j].remaining = W - d
               ELSE Passed(j)

(* the submission's rollback of its reservation has run *)
RolledBack(i) == Occurs(sub[i].trace, "rollback")
(* the rate limiter has decided the submission *)
Decided(i) == Passed(i) \/ RateLimited(i)

(* C12: when the insert of a submission fails (the store raises or is      *)
(* absent) the submitter's rate-limit entry is removed, and the next       *)
(* submission of that submitter the rate limiter decides is not rejected.  *)
C12_RollbackFreesSubmitter ==
    [][/\ \A i \in Submissions :
            /\ (~RolledBack(i) /\ RolledBack(i)') => lastConfess'[sub'[i].user] = NoInt
            /\ (sub[i].pc = "at_insert" /\ sub'[i].pc # "at_insert" /\ ~Persisted(i)')
                   => (RolledBack(i)' \/ sub'[i].pc = "wait_rollback")
            /\ (~dbPresent /\ ~Passed(i) /\ Passed(i)')
                   => (RolledBack(i)' \/ sub'[i].pc = "wait_rollback")
       /\ \A i, j \in Submissions :
            (RolledBack(i) /\ Consecutive(i, j)' /\ ~Decided(j) /\ Decided(j)')
                => Passed(j)']_vars

(* a submission accepted less than W after a submission of the same        *)
(* submitter whose insert failed                                           *)
C12_Witness ==
    \E i, j \in Submissions :
        /\ Consecutive(i, j) /\ RolledBack(i) /\ sub[i].reply = "failed_save"
        /\ Passed(j) /\ sub[j].now - sub[i].now < sub[j].rate_seconds

(* i and j are two submissions of one submitter, i decided first, whose    *)
(* timestamps are less than W apart                                        *)
WithinWindow(i, j) ==
    /\ i < j
    /\ sub[i].user = sub[j].user
    /\ sub[j].now - sub[i].now < sub[j].rate_seconds

(* the handler run is in progress *)
Running(i) == sub[i].pc \notin {"idle", "done", "crashed"}

(* C13 as stated: of two submissions of one submitter less than W apart    *)
(* that run concurrently at most one passes the rate-limit check and       *)
(* reaches the insert.                                                     *)
C13_AtMostOnePasses ==
    \A i, j \in Submissions :
        (WithinWindow(i, j) /\ Running(i) /\ Running(j))
            => ~(ReachedInsert(i) /\ ReachedInsert(j))

(* C13 amended: two submissions of one submitter less than W apart never   *)
(* pass the check on the same map entry: the later one passes only when a  *)
(* rollback has removed the submitter's entry after the earlier one's      *)
(* reservation; with the store present only a passing submission reaches   *)
(* the insert.                                                             *)
C13_SecondPassesOnlyAfterRollback ==
    \A i, j \in Submissions :
        /\ ReachedInsert(j) => Passed(j)
        /\ (WithinWindow(i, j) /\ Passed(i) /\ Passed(j)) => sub[j].pops > sub[i].pops

(* two submissions of one submitter less than W apart were decided while   *)
(* both were running; the first passed and the second was rejected         *)
C13_Witness ==
    \E i, j \in Submissions :
        /\ WithinWindow(i, j)
        /\ ReachedInsert(i) /\ sub[i].pc = "at_insert"
        /\ RateLimited(j) /\ ~ReachedInsert(j)

(* the handler run is suspended in an await of a message send, a channel   *)
(* lookup or a store access                                                *)
AwaitingIO(i) ==
    sub[i].pc \in {"at_reply", "at_insert", "at_fetch_channel", "at_post", "at_backfill"}

(* C14: the rate-limit lock is released before any I/O: no submission      *)
(* awaits a message send or a store access while it holds the lock.        *)
C14_NoIOUnderLock ==
    \A i \in Submissions : AwaitingIO(i) => rateLock.holder # i

(* C15: a submission rejected for quota violation leaves the persisted     *)
(* state unchanged: no step of it inserts or updates a confession row or   *)
(* posts to the confession channel.                                        *)
C15_RejectedTouchesNothing ==
    [][\A i \in Submissions :
          (RateLimited(i)' /\ sub'[i] # sub[i]) =>
              /\ confessions' = confessions
              /\ confPosts' = confPosts
              /\ ~ReachedInsert(i)' /\ ~Persisted(i)' /\ sub'[i].posted_msg_id = 0]_vars

(* a rejected submission has finished while a row of an accepted one is    *)
(* stored; its reply carried the remaining wait                            *)
C15_Witness ==
    \E i \in Submissions :
        /\ RateLimited(i) /\ sub[i].pc = "done" /\ sub[i].replied
        /\ sub[i].remaining > 0
        /\ confessions # <<>>

(* /confess was invoked for this slot *)
Invoked(i) == sub[i].pc # "idle"
(* the submitter was not held back by the rate limiter: the run is past    *)
(* the lock and was not rejected for quota                                 *)
NotLimited(i) == sub[i].pc # "wait_lock" /\ ~RateLimited(i)
(* the rows the submission created *)
RowsOf(i) == {k \in 1..Len(confessions) : confessions[k].id = sub[i].confession_id}
(* a post of row r to the channel has succeeded *)
PostSucceeded(r) ==
    \E k \in 1..Len(confPosts) :
        confPosts[k].id = r.message_id /\ confPosts[k].confession_id = r.id
(* every stored row is not deleted and has no message reference unless a   *)
(* post of it has succeeded                                                *)
RowsUnpostedUntilPost ==
    \A k \in 1..Len(confessions) :
        /\ confessions[k].deleted = FALSE
        /\ confessions[k].message_id # 0 => PostSucceeded(confessions[k])

(* C16 as stated: content of length 1501 or more and empty content is      *)
(* rejected with no row; non-empty content of length at most 1500 from a   *)
(* submitter who is not rate-limited is accepted and creates one row with  *)
(* deleted = false and message_id NULL until a post has succeeded.         *)
C16_LengthBoundary ==
    /\ \A i \in Submissions :
          Invoked(i) =>
            LET m == sub[i].message
            IN /\ (m.len = 0 \/ m.len > MaxContentLen)
                    => (sub[i].reply \in {"empty", "too_long"} /\ RowsOf(i) = {})
               /\ (m.len >= 1 /\ m.len <= MaxContentLen /\ NotLimited(i)
                                /\ sub[i].pc \in {"done", "crashed"})
                    => (Passed(i) /\ Cardinality(RowsOf(i)) = 1)
    /\ RowsUnpostedUntilPost

(* C16 amended: content that is empty or only whitespace, and content of   *)
(* length 1501 or more, is rejected before the rate limiter with no row;   *)
(* content with a visible character and length at most 1500 from a         *)
(* submitter who is not rate-limited passes and goes to the insert, which  *)
(* creates exactly one row when it succeeds and none when it fails; a row  *)
(* has deleted = false and no message reference until a post succeeded.    *)
C16_ValidationBoundary ==
    /\ \A i \in Submissions :
          Invoked(i) =>
            LET m == sub[i].message
            IN /\ (m.len = 0 \/ m.blank)
                    => (sub[i].reply = "empty" /\ ~Decided(i) /\ ~ReachedInsert(i)
                        /\ RowsOf(i) = {})
               /\ (~m.blank /\ m.len > MaxContentLen)
                    => (sub[i].reply = "too_long" /\ ~Decided(i) /\ ~ReachedInsert(i)
                        /\ RowsOf(i) = {})
               /\ (~m.blank /\ m.len >= 1 /\ m.len <= MaxContentLen /\ NotLimited(i))
                    => /\ Passed(i) /\ ReachedInsert(i)
                       /\ Cardinality(RowsOf(i)) = (IF Persisted(i) THEN 1 ELSE 0)
                       /\ (sub[i].pc \notin {"at_insert", "wait_rollback"} /\ ~Persisted(i))
                             => sub[i].reply = "failed_save"
    /\ Len(confessions) = Cardinality({i \in Submissions : Persisted(i)})
    /\ RowsUnpostedUntilPost

(* a 1500-character submission has its row with a message reference, a     *)
(* 1501-character one and a whitespace-only one were rejected              *)
C16_Witness ==
    \E i, j, k \in Submissions :
        /\ sub[i].message.len = MaxContentLen /\ Persisted(i)
        /\ \E r \in RowsOf(i) : confessions[r].message_id # 0
        /\ sub[j].message.len = MaxContentLen + 1 /\ sub[j].reply = "too_long"
        /\ sub[k].message.len = 3 /\ sub[k].reply = "empty"

(* the handler run is past the post: it is at its last reply or finished *)
PastPost(i) ==
    /\ Persisted(i)
    /\ sub[i].pc \in {"at_reply", "done", "crashed"}

(* C17: for an accepted submission the row is inserted before any post is  *)
(* attempted; a row's message reference is set only after a successful     *)
(* post and is then the id of the posted message; when the channel is      *)
(* unconfigured or unresolvable or the send fails the row stays stored     *)
(* with no message reference, and the post is attempted at most once.      *)
C17_InsertThenPostOnce ==
    /\ \A i \in Submissions :
          /\ Count(sub[i].trace, "insert") <= 1
          /\ Count(sub[i].trace, "fetch_channel") <= 1
          /\ Count(sub[i].trace, "post") <= 1
          /\ Occurs(sub[i].trace, "post") =>
                (Persisted(i) /\ RowsOf(i) # {} /\ Before(sub[i].trace, "insert", "post"))
          /\ (confChan \in {"unconfigured", "not_messageable"}) => ~Occurs(sub[i].trace, "post")
          /\ (PastPost(i) /\ sub[i].posted_msg_id = 0) =>
                /\ Cardinality(RowsOf(i)) = 1
                /\ \A k \in RowsOf(i) : confessions[k].message_id = 0
                /\ ~Occurs(sub[i].trace, "backfill")
          /\ \A k \in RowsOf(i) :
                confessions[k].message_id \in {0, sub[i].posted_msg_id}
    /\ \A k \in 1..Len(confessions) :
          confessions[k].message_id # 0 => PostSucceeded(confessions[k])

(* one submission is stored with the reference of its post, and another    *)
(* one, whose send failed, is finished and stored without a reference      *)
C17_Witness ==
    \E i, j \in Submissions :
        /\ Persisted(i) /\ \E k \in RowsOf(i) : confessions[k].message_id = sub[i].posted_msg_id
        /\ sub[i].posted_msg_id # 0
        /\ Persisted(j) /\ sub[j].pc = "done" /\ Occurs(sub[j].trace, "post")
        /\ sub[j].posted_msg_id = 0
        /\ \A k \in RowsOf(j) : confessions[k].message_id = 0

(* C18: confession rows are soft-deleted only: no step removes a row or    *)
(* changes its id, every row a submission inserted is still stored, and    *)
(* once a row's deleted flag is set no step unsets it, a second retract    *)
(* of the same confession included.                                        *)
C18_SoftDeleteOnly ==
    [][/\ Len(confessions') >= Len(confessions)
       /\ \A k \in 1..Len(confessions) :
            /\ confessions'[k].id = confessions[k].id
            /\ confessions[k].deleted => confessions'[k].deleted
       /\ \A i \in Submissions : Persisted(i)' => RowsOf(i)' # {}
       /\ \A j \in Retractions :
            (ret[j].pc = "at_mark" /\ ret'[j].reply = "marked") =>
                \A k \in 1..Len(confessions') :
                    confessions'[k].id = ret[j].confession_id => confessions'[k].deleted]_vars

(* two retracts of the same confession have both completed their UPDATE    *)
(* and the row is stored and deleted                                       *)
C18_Witness ==
    \E j1, j2 \in Retractions :
        /\ j1 # j2
        /\ ret[j1].confession_id = ret[j2].confession_id
        /\ ret[j1].reply = "marked" /\ ret[j2].reply = "marked"
        /\ \E k \in 1..Len(confessions) :
              confessions[k].id = ret[j1].confession_id /\ confessions[k].deleted

(* the retraction read an existing row *)
RowRead(j) ==
    /\ Occurs(ret[j].trace, "select")
    /\ ret[j].pc # "at_select"
    /\ ret[j].reply \notin {"query_failed", "not_found"}

(* the retraction began the deletion of the posted message: it resolved    *)
(* the channel or asked for the message                                    *)
DeletionAttempted(j) ==
    Occurs(ret[j].trace, "fetch_channel") \/ Occurs(ret[j].trace, "fetch_message")

(* C19: retract by a moderator on an existing confession first attempts to *)
(* delete the posted message when the row has a message reference and then *)
(* issues the UPDATE that marks the row deleted; a not-found answer for the *)
(* posted message is tolerated: the UPDATE is still issued, and the row is *)
(* deleted once it has completed.                                          *)
C19_DeleteThenMark ==
    \A j \in Retractions :
        /\ (RowRead(j) /\ ret[j].msg_id # 0) => DeletionAttempted(j)
        /\ (RowRead(j) /\ ret[j].msg_id = 0) => ~DeletionAttempted(j)
        /\ RowRead(j) => (ret[j].moderator /\ Count(ret[j].trace, "mark") <= 1)
        /\ (RowRead(j) /\ ret[j].pc \notin {"at_fetch_channel", "at_fetch_message", "at_delete"})
              => Occurs(ret[j].trace, "mark")
        /\ Before(ret[j].trace, "fetch_channel", "mark")
        /\ Before(ret[j].trace, "fetch_message", "mark")
        /\ Before(ret[j].trace, "delete", "mark")
        /\ Occurs(ret[j].trace, "delete") => Occurs(ret[j].trace, "fetch_message")
        /\ ret[j].reply = "marked" =>
              \A k \in 1..Len(confessions) :
                  confessions[k].id = ret[j].confession_id => confessions[k].deleted
        /\ ret[j].pc = "crashed" => ret[j].escaped = "send_message"

(* a retraction got not-found for the posted message and has marked the    *)
(* row deleted                                                             *)
C19_Witness ==
    \E j \in Retractions :
        /\ ret[j].moderator /\ ret[j].msg_id # 0
        /\ Occurs(ret[j].trace, "NotFound")
        /\ ret[j].reply = "marked" /\ ret[j].pc = "done"
        /\ \E k \in 1..Len(confessions) :
              confessions[k].id = ret[j].confession_id /\ confessions[k].deleted

----------------------------------------------------------------------------
(* The AFK cog: UserAfkCog.on_message and UserAfkCog.afk *)

(* the listener returns *)
Return(t) == [t EXCEPT !.pc = "done"]

(* a message the listener sent to the channel of message k *)
Notice(k, what, user, since, names) ==
    [msg |-> k, kind |-> what, user |-> user, since |-> since, names |-> names]

(* a variant of MentionStep in which clearing the author's own status      *)
(* ends the run                                                            *)
MentionStep_SkipAfterClear(t) ==
    IF t.row # NoStatus THEN Return(t)
    ELSE LET mentioned_ids == {u \in t.mentions : u # BotUser}
         IN IF mentioned_ids = {} THEN Return(t)
            ELSE Log([t EXCEPT !.pc = "at_fetch_mention", !.todo = mentioned_ids],
                     "fetch_mention")

(* lines 135-152: the mentioned non-bot users, up to the first lookup *)
MentionStep(t) ==
    LET mentioned_ids == {u \in t.mentions : u # BotUser}
    IN IF mentioned_ids = {} THEN Return(t)
       ELSE Log([t EXCEPT !.pc = "at_fetch_mention", !.todo = mentioned_ids], "fetch_mention")

(* a message is delivered to the listener: lines 95-107 *)
OnMessage(a, ms, g, n) ==
    /\ nMsg < n
    /\ nMsg' = nMsg + 1
    /\ LET t0 == [EmptyMsg EXCEPT !.author = a, !.mentions = ms, !.guild = g]
       IN msg' = [msg EXCEPT ![nMsg + 1] =
            IF a = BotUser \/ ~dbPresent THEN Return(t0)
            ELSE Log([t0 EXCEPT !.pc = "at_fetch_author"], "fetch_author")]
    /\ UNCHANGED <<sessionVars, relayVars, dbPresent, now, faults, afkStatuses, notices,
                   dms, nAfkCmd, afkCmd>>

(* await db.fetchone(_SELECT_AFK_SQL, (author_id,)): lines 106-115 *)
AuthorFetchDone(k, ok) ==
    /\ msg[k].pc = "at_fetch_author"
    /\ Outcome(ok)
    /\ LET row == IF ok THEN afkStatuses[msg[k].author] ELSE NoStatus
       IN msg' = [msg EXCEPT ![k] =
            IF row # NoStatus
            THEN Log([@ EXCEPT !.pc = "at_delete", !.row = row], "delete")
            ELSE MentionStep(@)]
    /\ UNCHANGED <<sessionVars, relayVars, dbPresent, now, afkStatuses, notices,
                   dms, nMsg, nAfkCmd, afkCmd>>

(* DELETE FROM afk_statuses WHERE user_id = ? *)
DeleteStatus(rows, u) == [rows EXCEPT ![u] = NoStatus]

(* await db.execute(_DELETE_AFK_SQL, (author_id,)): lines 114-128 *)
AfkDeleteDone(k, ok) ==
    /\ msg[k].pc = "at_delete"
    /\ Outcome(ok)
    /\ afkStatuses' = IF ok THEN DeleteStatus(afkStatuses, msg[k].author) ELSE afkStatuses
    /\ msg' = [msg EXCEPT ![k] =
         IF @.guild THEN Log([@ EXCEPT !.pc = "at_welcome"], "welcome")
         ELSE Log([@ EXCEPT !.pc = "at_dm"], "dm")]
    /\ UNCHANGED <<sessionVars, relayVars, dbPresent, now, notices, dms, nMsg, nAfkCmd,
                   afkCmd>>

(* await message.channel.send("Welcome back ..."): lines 123-133 *)
WelcomeDone(k, ok) ==
    /\ msg[k].pc = "at_welcome"
    /\ Outcome(ok)
    /\ notices' = IF ok
                  THEN Append(notices, Notice(k, "welcome", msg[k].author,
                                              msg[k].row[1].since, {}))
                  ELSE notices
    /\ msg' = [msg EXCEPT ![k] =
         IF ok THEN Log([@ EXCEPT !.pc = "at_dm"], "dm") ELSE MentionStep(@)]
    /\ UNCHANGED <<sessionVars, relayVars, dbPresent, now, afkStatuses, dms, nMsg,
                   nAfkCmd, afkCmd>>

(* await message.author.send(...): lines 127-131 *)
DmDone(k, ok) ==
    /\ msg[k].pc = "at_dm"
    /\ Outcome(ok)
    /\ dms' = IF ok THEN Append(dms, [msg |-> k, user |-> msg[k].author]) ELSE dms
    /\ msg' = [msg EXCEPT ![k] = MentionStep(@)]
    /\ UNCHANGED <<sessionVars, relayVars, dbPresent, now, afkStatuses, notices, nMsg,
                   nAfkCmd, afkCmd>>

(* r["reason"] or "No reason provided" *)
ReasonOrDefault(reason) == IF reason = "" THEN "No reason provided" ELSE reason

(* a variant of AfterLookup that sends the notice whatever was found *)
AfterLookup_AlwaysSend(t) ==
    Log([t EXCEPT !.pc = "at_mention_send"], "mention_send")

(* lines 151-165: after the lookups *)
AfterLookup(t) ==
    IF t.afk_rows = {} THEN Return(t)
    ELSE Log([t EXCEPT !.pc = "at_mention_send"], "mention_send")

(* await db.fetchone(_SELECT_AFK_SQL, (uid,)) for one of the mentioned ids, *)
(* in the order the set yields them: lines 143-152                         *)
MentionFetchDone(k, uid, ok) ==
    /\ msg[k].pc = "at_fetch_mention"
    /\ uid \in msg[k].todo
    /\ Outcome(ok)
    /\ LET r == afkStatuses[uid]
           found == IF r # NoStatus
                    THEN {[user |-> uid, reason |-> ReasonOrDefault(r[1].reason),
                           since |-> r[1].since]}
                    ELSE {}
           t1 == [msg[k] EXCEPT !.todo = @ \ {uid}, !.afk_rows = @ \cup found]
       IN msg' = [msg EXCEPT ![k] =
            IF ~ok THEN AfterLookup(@)
            ELSE IF t1.todo = {} THEN AfterLookup(t1)
            ELSE t1]
    /\ UNCHANGED <<sessionVars, relayVars, dbPresent, now, afkStatuses, notices, dms,
                   nMsg, nAfkCmd, afkCmd>>

(* await message.channel.send(reply_text): lines 163-167 *)
MentionSendDone(k, ok) ==
    /\ msg[k].pc = "at_mention_send"
    /\ Outcome(ok)
    /\ notices' = IF ok
                  THEN Append(notices, Notice(k, "mentions", "none", 0, msg[k].afk_rows))
                  ELSE notices
    /\ msg' = [msg EXCEPT ![k] = Return(@)]
    /\ UNCHANGED <<sessionVars, relayVars, dbPresent, now, afkStatuses, dms, nMsg,
                   nAfkCmd, afkCmd>>

(* /afk invoked: lines 32-40 *)
Afk(u, reason, n) ==
    /\ nAfkCmd < n
    /\ nAfkCmd' = nAfkCmd + 1
    /\ LET t0 == [EmptyCmd EXCEPT !.user = u, !.reason = reason, !.ts = now]
       IN afkCmd' = [afkCmd EXCEPT ![nAfkCmd + 1] =
            IF ~dbPresent THEN Reply(t0, "db_unavailable")
            ELSE [t0 EXCEPT !.pc = "at_replace"]]
    /\ UNCHANGED <<sessionVars, relayVars, dbPresent, now, faults, afkStatuses, notices,
                   dms, nMsg, msg>>

(* a variant of ReplaceStatus that keeps the row a user already has, as    *)
(* INSERT OR IGNORE would                                                  *)
ReplaceStatus_KeepExisting(rows, u, reason, since) ==
    IF rows[u] # NoStatus THEN rows
    ELSE [rows EXCEPT ![u] = Status(IF reason = "" THEN "No reason provided." ELSE reason,
                                    since)]

(* REPLACE INTO afk_statuses (user_id, reason, since) VALUES (?, ?, ?) *)
ReplaceStatus(rows, u, reason, since) ==
    [rows EXCEPT ![u] = Status(IF reason = "" THEN "No reason provided." ELSE reason, since)]

(* await db.execute(_INSERT_AFk_SQL, ...): lines 39-50 *)
AfkReplaceDone(c, ok) ==
    /\ afkCmd[c].pc = "at_replace"
    /\ Outcome(ok)
    /\ afkStatuses' = IF ok
                      THEN ReplaceStatus(afkStatuses, afkCmd[c].user, afkCmd[c].reason,
                                         afkCmd[c].ts)
                      ELSE afkStatuses
    /\ afkCmd' = [afkCmd EXCEPT ![c] = Reply(@, IF ok THEN "afk_set" ELSE "failed")]
    /\ UNCHANGED <<sessionVars, relayVars, dbPresent, now, notices, dms, nMsg, msg,
                   nAfkCmd>>

(* await interaction.response.send_message(...) of /afk: no try statement  *)
(* around any of them                                                      *)
AfkReplyDone(c, ok) ==
    /\ afkCmd[c].pc = "at_reply"
    /\ Outcome(ok)
    /\ afkCmd' = [afkCmd EXCEPT ![c] =
         IF ok THEN [@ EXCEPT !.pc = "done", !.replied = TRUE]
         ELSE Escape(@, "send_message")]
    /\ UNCHANGED <<sessionVars, relayVars, dbPresent, now, afkStatuses, notices, dms,
                   nMsg, msg, nAfkCmd>>

----------------------------------------------------------------------------
(* The AFK cog on its own: no confirmation session, no confession *)

Reasons == {"", "lunch"}
AwaySince == StartTime - 100
MentionSets == {{}, {"u1"}, {"u2", BotUser}, {"u1", "u2"}}

InitAfk ==
    /\ SessionIdle
    /\ RelayIdle
    /\ dbPresent \in BOOLEAN
    /\ now = StartTime
    /\ faults = 0
    /\ afkStatuses \in [Members -> {NoStatus, Status("lunch", AwaySince)}]
    /\ AfkQuiet

(* the awaits of the listener's part about the author, and of /afk *)
AuthorSteps ==
    \/ \E k \in Inbound, ok \in BOOLEAN : AuthorFetchDone(k, ok)
    \/ \E k \in Inbound, ok \in BOOLEAN : AfkDeleteDone(k, ok)
    \/ \E k \in Inbound, ok \in BOOLEAN : WelcomeDone(k, ok)
    \/ \E k \in Inbound, ok \in BOOLEAN : DmDone(k, ok)
    \/ \E c \in AfkCmds, ok \in BOOLEAN : AfkReplaceDone(c, ok)
    \/ \E c \in AfkCmds, ok \in BOOLEAN : AfkReplyDone(c, ok)

(* the awaits of the listener's part about the mentioned users *)
MentionSteps ==
    \/ \E k \in Inbound, uid \in Members, ok \in BOOLEAN : MentionFetchDone(k, uid, ok)
    \/ \E k \in Inbound, ok \in BOOLEAN : MentionSendDone(k, ok)

(* A returning member: messages without mentions by member u1 and by a    *)
(* bot, in a guild channel or in a direct message, and /afk by u1         *)
NextAfk ==
    \/ \E a \in {"u1", BotUser}, g \in BOOLEAN : OnMessage(a, {}, g, MaxMessages)
    \/ \E r \in Reasons : Afk("u1", r, MaxAfkCmds)
    \/ AuthorSteps

SpecAfk == InitAfk /\ [][NextAfk]_vars

(* the awaits of the listener alone *)
ListenerSteps ==
    \/ \E k \in Inbound, ok \in BOOLEAN : AuthorFetchDone(k, ok)
    \/ \E k \in Inbound, ok \in BOOLEAN : AfkDeleteDone(k, ok)
    \/ \E k \in Inbound, ok \in BOOLEAN : WelcomeDone(k, ok)
    \/ \E k \in Inbound, ok \in BOOLEAN : DmDone(k, ok)
    \/ MentionSteps

(* Messages that mention members: any author, any of the mention sets, in *)
(* a guild channel or in a direct message, their listener runs interleaved *)
NextMentions ==
    \/ \E a \in Authors, ms \in MentionSets, g \in BOOLEAN :
          OnMessage(a, ms, g, MaxMentionMessages)
    \/ ListenerSteps

SpecMentions == InitAfk /\ [][NextMentions]_vars

(* /afk invoked again: the members set their status up to                  *)
(* MaxReactivations times, with the clock advancing in between             *)
NextReactivate ==
    \/ \E u \in Members, r \in Reasons : Afk(u, r, MaxReactivations)
    \/ \E c \in AfkCmds, ok \in BOOLEAN : AfkReplaceDone(c, ok)
    \/ \E c \in AfkCmds, ok \in BOOLEAN : AfkReplyDone(c, ok)
    \/ Tick(TickSeconds, MaxTicks)

SpecReactivate == InitAfk /\ [][NextReactivate]_vars

----------------------------------------------------------------------------
(* The moderation commands: ModerationCog.kick and ModerationCog.ban, from *)
(* the invocation to the confirmation prompt                               *)

(* ModerationCog._is_moderator: lines 476-484 *)
IsModerator(cfg, caller) ==
    IF cfg # "unset"
    THEN IF cfg = "set" THEN caller.role ELSE FALSE
    ELSE caller.perm

(* UserConfessionsCog._is_moderator, invoked in a guild: lines 56-62 *)
ConfessionIsModerator(cfg, caller) ==
    IF cfg # "unset"
    THEN IF cfg = "set" THEN caller.role ELSE FALSE
    ELSE caller.perm

(* view = ConfirmKickView(...) / ConfirmBanView(...), then the prompt is   *)
(* sent: lines 533-536 and 586-589                                         *)
AskConfirmation(t) ==
    Log([t EXCEPT !.view = t.kind, !.pc = "at_prompt"], "prompt")

(* the comparison of the top roles: lines 519-526 and 572-579 *)
HierarchyCheck(t) ==
    IF t.target.rank >= t.caller.rank /\ ~t.caller.owner
    THEN Log([t EXCEPT !.pc = "at_reject"], "reject")
    ELSE AskConfirmation(t)

(* the checks of kick and ban up to their first await: lines 497-517 and   *)
(* 549-570                                                                 *)
Invoke(t) ==
    IF ~t.guild THEN Reply(t, "guild_only")
    ELSE IF ~IsModerator(modRole, t.caller) THEN Reply(t, "no_permission")
    ELSE IF t.target.who = "self" THEN Reply(t, "self")
    ELSE IF t.target.who = "bot" THEN Reply(t, "bot_self")
    ELSE IF ~t.caller.cached
         THEN Log([t EXCEPT !.pc = "at_fetch_member"], "fetch_member")
         ELSE HierarchyCheck(t)

(* /kick or /ban invoked *)
Command(k, g, caller, target, n) ==
    /\ nCmd < n
    /\ nCmd' = nCmd + 1
    /\ cmd' = [cmd EXCEPT ![nCmd + 1] =
                 Invoke([EmptyCommand EXCEPT !.kind = k, !.guild = g, !.caller = caller,
                                             !.target = target])]
    /\ UNCHANGED <<viewVars, relayVars, afkVars, dbPresent, now, faults, modRole, authorized>>

(* await interaction.guild.fetch_member(interaction.user.id), inside the   *)
(* try of the role hierarchy check: lines 514-531 and 567-584              *)
FetchMemberDone(c, ok) ==
    /\ cmd[c].pc = "at_fetch_member"
    /\ Outcome(ok)
    /\ cmd' = [cmd EXCEPT ![c] = IF ok THEN HierarchyCheck(@) ELSE AskConfirmation(@)]
    /\ UNCHANGED <<viewVars, relayVars, afkVars, dbPresent, now, modRole, nCmd, authorized>>

(* await interaction.response.send_message("You cannot kick a member with  *)
(* an equal or higher role than you."), inside the same try: lines 523-531 *)
(* and 576-584                                                             *)
RejectDone(c, ok) ==
    /\ cmd[c].pc = "at_reject"
    /\ Outcome(ok)
    /\ cmd' = [cmd EXCEPT ![c] =
         IF ok THEN [@ EXCEPT !.pc = "done", !.reply = "hierarchy", !.replied = TRUE]
         ELSE AskConfirmation(@)]
    /\ UNCHANGED <<viewVars, relayVars, afkVars, dbPresent, now, modRole, nCmd, authorized>>

(* await interaction.response.send_message("Confirm kicking ...",          *)
(* view=view): lines 534-536 and 587-589, in no try                        *)
PromptDone(c, ok) ==
    /\ cmd[c].pc = "at_prompt"
    /\ Outcome(ok)
    /\ cmd' = [cmd EXCEPT ![c] =
         IF ok THEN [@ EXCEPT !.pc = "done", !.prompted = TRUE]
         ELSE Escape(@, "send_message")]
    /\ UNCHANGED <<viewVars, relayVars, afkVars, dbPresent, now, modRole, nCmd, authorized>>

(* await interaction.response.send_message(...) of the early returns:      *)
(* lines 498-511 and 550-563, in no try                                    *)
CmdReplyDone(c, ok) ==
    /\ cmd[c].pc = "at_reply"
    /\ Outcome(ok)
    /\ cmd' = [cmd EXCEPT ![c] =
         IF ok THEN [@ EXCEPT !.pc = "done", !.replied = TRUE]
         ELSE Escape(@, "send_message")]
    /\ UNCHANGED <<viewVars, relayVars, afkVars, dbPresent, now, modRole, nCmd, authorized>>

(* the guild takes the moderator role (or the permission) from the         *)
(* session's invoker after the command has shown the prompt and before any *)
(* button is pressed                                                       *)
RevokeRole ==
    /\ authorized
    /\ nPress = 0
    /\ authorized' = FALSE
    /\ UNCHANGED <<viewVars, relayVars, afkVars, dbPresent, now, faults, modRole, nCmd, cmd>>

(* The confirmation session of an invoker whose authority can be revoked *)
NextRevoke == RevokeRole \/ Tick(TickSeconds, MaxTicks) \/ Steps

SpecRevoke == InitTimer /\ [][NextRevoke]_vars

(* The commands on their own: no confirmation session is open yet *)
InitCommand ==
    /\ ViewIdle
    /\ RelayIdle
    /\ AfkIdle
    /\ dbPresent \in BOOLEAN
    /\ now = StartTime
    /\ faults = 0
    /\ modRole \in ModRoles
    /\ CmdQuiet

CommandSteps ==
    \/ \E c \in Commands, ok \in BOOLEAN : FetchMemberDone(c, ok)
    \/ \E c \in Commands, ok \in BOOLEAN : RejectDone(c, ok)
    \/ \E c \in Commands, ok \in BOOLEAN : PromptDone(c, ok)
    \/ \E c \in Commands, ok \in BOOLEAN : CmdReplyDone(c, ok)

(* /kick, /ban and /confessions remove by any caller against any target *)
NextCommand ==
    \/ \E k \in {"kick", "ban"}, g \in BOOLEAN, caller \in Callers, target \in Targets :
          Command(k, g, caller, target, MaxCommands)
    \/ CommandSteps
    \/ \E caller \in Callers : RemoveConfession(ConfessionIsModerator(modRole, caller), 0)
    \/ \E j \in 1..MaxRetract, ok \in BOOLEAN : RetReplyDone(j, ok)

SpecCommand == InitCommand /\ [][NextCommand]_vars

(* C24: a kick or ban command against a member whose top role is equal to *)
(* or higher than the top role of an invoker who is not the guild owner    *)
(* creates no confirmation view and shows no prompt.                       *)
C24_HierarchyRejected ==
    \A c \in Commands :
        ( /\ cmd[c].pc # "idle" /\ cmd[c].guild
          /\ cmd[c].target.who = "member"
          /\ cmd[c].target.rank >= cmd[c].caller.rank
          /\ ~cmd[c].caller.owner )
        => cmd[c].view = "none" /\ ~cmd[c].prompted

(* the caller holds the role settings.mod_role_id names *)
HoldsModRole(caller) == modRole = "set" /\ caller.role

(* C25: the authority check accepts a caller who holds the configured      *)
(* moderator role or the elevated permission and rejects a caller who      *)
(* holds neither, in kick and ban and in confession retraction; a rejected *)
(* caller gets no confirmation view and no prompt.                         *)
C25_RoleOrPermission ==
    /\ \A c \in Commands :
          (cmd[c].pc # "idle" /\ cmd[c].guild)
          => /\ cmd[c].reply = "no_permission"
                   <=> ~(HoldsModRole(cmd[c].caller) \/ cmd[c].caller.perm)
             /\ cmd[c].reply = "no_permission"
                   => cmd[c].view = "none" /\ ~cmd[c].prompted
    /\ \A caller \in Callers :
          ConfessionIsModerator(modRole, caller)
             <=> (HoldsModRole(caller) \/ caller.perm)

----------------------------------------------------------------------------
(* Derived quantities of the AFK cog *)

(* the welcome-back notices sent to channels about user u *)
WelcomeNotices(u) ==
    Cardinality({n \in 1..Len(notices) :
                    notices[n].kind = "welcome" /\ notices[n].user = u})

(* C20: messages authored by a user with an active AFK status clear the    *)
(* status exactly once: as long as no /afk intervenes, at most one         *)
(* welcome-back notice about the user is produced, whatever the number     *)
(* and the interleaving of the user's messages.                            *)
C20_ClearedOnce ==
    nAfkCmd = 0 => \A u \in Members : WelcomeNotices(u) <= 1

----------------------------------------------------------------------------
(* Messages that mention members *)

(* the listener's run for message k is over *)
Handled(k) == k <= nMsg /\ msg[k].pc = "done"

(* the notices of one kind sent to the channel of message k *)
NoticesOf(k, what) ==
    {n \in 1..Len(notices) : notices[n].msg = k /\ notices[n].kind = what}

(* the author of message k was welcomed back: in the channel of a guild   *)
(* message, by direct message otherwise                                    *)
Welcomed(k) ==
    IF msg[k].guild THEN NoticesOf(k, "welcome") # {}
    ELSE \E d \in 1..Len(dms) : dms[d].msg = k

(* the members the mention notices of message k name *)
Named(k) ==
    {r.user : r \in UNION {notices[n].names : n \in NoticesOf(k, "mentions")}}

(* member v is away and has written nothing, so has been away all along *)
AwayAllAlong(v) ==
    /\ afkStatuses[v] # NoStatus
    /\ \A j \in 1..nMsg : msg[j].author # v

(* C21: a message whose author U was found away and which mentions another *)
(* member V who is away gets both the welcome-back notice for U and the    *)
(* mention notice naming V, when no call fails; and a member's status is   *)
(* only ever removed by the run of a message that member wrote, so V's     *)
(* status stays in place.                                                  *)
C21_BothNotices ==
    /\ [](\A k \in Inbound : \A v \in Members :
            ( /\ Handled(k) /\ faults = 0
              /\ msg[k].row # NoStatus
              /\ v \in msg[k].mentions /\ v # msg[k].author
              /\ AwayAllAlong(v) )
            => Welcomed(k) /\ v \in Named(k))
    /\ [][\A v \in Members :
            afkStatuses'[v] # afkStatuses[v]
            => \E k \in Inbound : /\ msg[k].pc = "at_delete" /\ msg[k].author = v
                                  /\ msg'[k] # msg[k]]_vars

C21_Witness ==
    \E k \in Inbound : \E v \in Members :
        /\ Handled(k) /\ msg[k].row # NoStatus
        /\ v \in msg[k].mentions /\ v # msg[k].author
        /\ afkStatuses[v] # NoStatus /\ afkStatuses[msg[k].author] = NoStatus
        /\ NoticesOf(k, "welcome") # {} /\ v \in Named(k)

(* C22: the store holds at most one AFK status per user (afkStatuses has   *)
(* one optional row per user id, the table's primary key), and an /afk     *)
(* whose REPLACE succeeds leaves the invoking user with exactly the        *)
(* command's reason and the command's timestamp, whatever status the user  *)
(* had before, and leaves every other user's status alone.                 *)
C22_SecondActivationReplaces ==
    [][\A c \in AfkCmds :
         (afkCmd[c].pc = "at_replace" /\ afkCmd'[c].reply = "afk_set")
         => /\ afkStatuses'[afkCmd[c].user] =
                 Status(IF afkCmd[c].reason = "" THEN "No reason provided."
                        ELSE afkCmd[c].reason, afkCmd[c].ts)
            /\ Len(afkStatuses'[afkCmd[c].user]) = 1
            /\ \A v \in Members \ {afkCmd[c].user} : afkStatuses'[v] = afkStatuses[v]]_vars

(* a user invoked /afk, and later invoked it again: the status carries    *)
(* the second activation's reason and timestamp                            *)
C22_Witness ==
    \E c, d \in AfkCmds :
        /\ c < d /\ afkCmd[c].user = afkCmd[d].user
        /\ afkCmd[c].pc = "done" /\ afkCmd[c].reply = "afk_set"
        /\ afkCmd[d].pc = "done" /\ afkCmd[d].reply = "afk_set"
        /\ afkCmd[c].ts < afkCmd[d].ts /\ afkCmd[c].reason # afkCmd[d].reason
        /\ afkStatuses[afkCmd[d].user] =
             Status(IF afkCmd[d].reason = "" THEN "No reason provided."
                    ELSE afkCmd[d].reason, afkCmd[d].ts)

(* the users the lookups of a run have found away *)
Found(t) == {r.user : r \in t.afk_rows}

(* C23: a message gets at most one mention notice; the notice names the    *)
(* users the run's lookups found away, at least one, all of them mentioned *)
(* non-bot users who have a status or whose status one of their own        *)
(* messages cleared; a run that found nobody away sends none; a message by *)
(* a bot gets none; and a lookup that succeeds adds the user it is about   *)
(* exactly when that user has a status at that moment, with that status's  *)
(* data.                                                                   *)
C23_OneConsolidatedNotice ==
    /\ [](\A k \in Inbound :
            /\ Cardinality(NoticesOf(k, "mentions")) <= 1
            /\ \A n \in NoticesOf(k, "mentions") :
                   /\ notices[n].names = msg[k].afk_rows
                   /\ notices[n].names # {}
            /\ Found(msg[k]) \subseteq (msg[k].mentions \ {BotUser})
            /\ \A v \in Found(msg[k]) :
                   \/ afkStatuses[v] # NoStatus
                   \/ \E j \in 1..nMsg : msg[j].author = v /\ msg[j].row # NoStatus
            /\ (Handled(k) /\ msg[k].afk_rows = {}) => NoticesOf(k, "mentions") = {}
            /\ msg[k].author = BotUser => NoticesOf(k, "mentions") = {})
    /\ [][\A k \in Inbound :
            (msg[k].pc = "at_fetch_mention" /\ msg'[k] # msg[k])
            => /\ \A u \in msg[k].todo \ msg'[k].todo :
                    IF afkStatuses[u] = NoStatus
                    THEN msg'[k].afk_rows = msg[k].afk_rows
                    ELSE msg'[k].afk_rows = msg[k].afk_rows \cup
                           {[user |-> u, reason |-> afkStatuses[u][1].reason,
                             since |-> afkStatuses[u][1].since]}
               /\ msg'[k].todo = msg[k].todo => msg'[k].afk_rows = msg[k].afk_rows]_vars

(* a message mentioning two members, one away and one not, was answered    *)
(* with the one notice naming the one away                                 *)
C23_Witness ==
    \E k \in Inbound :
        /\ Handled(k) /\ msg[k].mentions = {"u1", "u2"}
        /\ Cardinality(NoticesOf(k, "mentions")) = 1
        /\ Named(k) = {"u2"}
        /\ msg[k].todo = {}

(* C26: no failure of an awaited call ends a handler as an exception that  *)
(* no try statement of the handler catches: no run of a button callback,   *)
(* of confess, of remove_confession or of on_message ends crashed.         *)
C26_NoUncaughtFault ==
    /\ \A i \in Presses : task[i].pc # "crashed"
    /\ \A i \in Submissions : sub[i].pc # "crashed"
    /\ \A j \in Retractions : ret[j].pc # "crashed"
    /\ \A k \in Inbound : msg[k].pc # "crashed"

(* C27: the moderation log is append-only: every step of the program      *)
(* leaves every record already written in place, with the field values it  *)
(* was written with, and never shortens the log.                           *)
C27_AppendOnly ==
    [][/\ Len(modLog') >= Len(modLog)
       /\ \A n \in 1..Len(modLog) : modLog'[n] = modLog[n]]_vars

(* a second record was written after a first one, which is still there *)
C27_Witness ==
    /\ Len(modLog) = 2
    /\ modLog[1].id = 1 /\ modLog[2].id = 2
    /\ \E i \in Presses : task[i].pc = "done" /\ task[i].sink.db_rowid = 1
    /\ \E i \in Presses : task[i].pc = "done" /\ task[i].sink.db_rowid = 2

(* C28: the timestamps of the moderation records never decrease in the     *)
(* order the records were written, and when a run's platform action        *)
(* completes, the timestamp the run writes into its record is the time of  *)
(* that moment.                                                            *)
C28_MonotonicTimestamps ==
    /\ [](\A m, n \in 1..Len(modLog) :
            m < n => modLog[m].timestamp <= modLog[n].timestamp)
    /\ [][\A i \in Presses :
            (task[i].pc = "at_action" /\ task'[i].pc # "at_action")
            => task'[i].ts = now]_vars

(* a row without the id the store generated and without the reference to   *)
(* its post; a post without the id the platform generated and without the  *)
(* id of its row                                                           *)
WithoutIds(r) == [r EXCEPT !.id = 0, !.message_id = 0]
PostWithoutIds(q) == [q EXCEPT !.id = 0, !.confession_id = 0]
PostsOf(i) == {k \in 1..Len(confPosts) : confPosts[k].id = sub[i].posted_msg_id}

(* submissions i and j differ in the submitter only *)
SameButSubmitter(i, j) ==
    /\ i <= nSub /\ j <= nSub
    /\ sub[i].user # sub[j].user
    /\ sub[i].message = sub[j].message
    /\ sub[i].category = sub[j].category
    /\ sub[i].now = sub[j].now

(* C29: two submissions that differ only in the submitter produce rows     *)
(* with the same field values, the generated id and the post reference     *)
(* apart, and channel posts with the same content, the generated ids       *)
(* apart.                                                                  *)
C29_Anonymous ==
    \A i, j \in Submissions :
        SameButSubmitter(i, j)
        => /\ \A a \in RowsOf(i), b \in RowsOf(j) :
                 WithoutIds(confessions[a]) = WithoutIds(confessions[b])
           /\ \A p \in PostsOf(i), q \in PostsOf(j) :
                 PostWithoutIds(confPosts[p]) = PostWithoutIds(confPosts[q])

C29_Witness ==
    \E i, j \in Submissions :
        /\ SameButSubmitter(i, j)
        /\ RowsOf(i) # {} /\ RowsOf(j) # {}
        /\ PostsOf(i) # {} /\ PostsOf(j) # {}
        /\ sub[i].pc = "done" /\ sub[j].pc = "done"

(* the tables DEFAULT_SCHEMA creates: db.py lines 10-38 *)
DefaultSchemaTables == {"moderation_logs", "guild_members", "afk_statuses"}

(* the store is what Database.bootstrap makes of an empty store *)
BootstrappedStore == dbPresent /\ (confTable <=> "confessions" \in DefaultSchemaTables)

(* C30: on a store created by the bootstrap, a valid submission that       *)
(* passed the rate limiter never takes the insert-failure path when no     *)
(* call fails for another reason, and is persisted once its insert has     *)
(* completed.                                                              *)
C30_BootstrapPersists ==
    (BootstrappedStore /\ faults = 0)
    => \A i \in Submissions :
          /\ sub[i].reply # "failed_save"
          /\ (Passed(i) /\ Occurs(sub[i].trace, "insert") /\ sub[i].pc # "at_insert")
                => Persisted(i)

(* C31: the rollback of a submission whose insert failed removes only that *)
(* submission's reservation: when a later submission of the same submitter *)
(* has been accepted and persisted meanwhile, the step that rolls the      *)
(* failing one back leaves the submitter's entry as it is.                 *)
C31_RollbackOwnReservationOnly ==
    [][\A i, j \in Submissions :
         ( /\ ~RolledBack(i) /\ RolledBack(i)'
           /\ sub'[i].reply = "failed_save"
           /\ i < j /\ sub[j].user = sub'[i].user
           /\ Passed(j) /\ Persisted(j) )
         => /\ lastConfess'[sub[j].user] = lastConfess[sub[j].user]
            /\ lastConfess'[sub[j].user] # NoInt]_vars

(* the row of confession id is marked deleted *)
MarkedDeleted(id) ==
    \E k \in 1..Len(confessions) : confessions[k].id = id /\ confessions[k].deleted

(* C32: a confession is not posted after its row was marked deleted: no    *)
(* run of confess starts the send to the confession channel for a row that *)
(* is marked deleted at that moment.                                       *)
C32_NoPostAfterRetract ==
    [][\A i \in Submissions :
         (sub[i].pc # "at_post" /\ sub'[i].pc = "at_post")
         => ~MarkedDeleted(sub'[i].confession_id)]_vars

(* C33: the submitter is told that the confession has been posted only if  *)
(* the send to the confession channel succeeded.                           *)
C33_AckOnlyAfterPost ==
    \A i \in Submissions :
        (sub[i].reply = "posted" /\ sub[i].replied) => sub[i].posted_msg_id # 0

(* the replies of a rejected submission *)
Rejections == {"empty", "too_long", "rate_limited"}

(* C34: no step of a rejected submission changes the rate-limit map, and   *)
(* a submitter's entry changes only in a step of a submission of that      *)
(* submitter that passed the rate limiter.                                 *)
C34_RejectedLeavesMap ==
    [][/\ \A i \in Submissions :
            (sub'[i] # sub[i] /\ sub'[i].reply \in Rejections)
            => lastConfess' = lastConfess
       /\ \A u \in Submitters :
            lastConfess'[u] # lastConfess[u]
            => \E i \in Submissions :
                  sub'[i] # sub[i] /\ sub'[i].user = u /\ Passed(i)']_vars

(* a submitter with an entry was rejected by the rate limiter at a later   *)
(* time and the entry still holds the earlier time, the other submitter    *)
(* was rejected for the content and has no entry                           *)
C34_Witness ==
    \E i, j \in Submissions :
        /\ sub[i].pc = "done" /\ RateLimited(i)
        /\ lastConfess[sub[i].user] # NoInt
        /\ lastConfess[sub[i].user][1] < sub[i].now
        /\ sub[j].pc = "done" /\ sub[j].reply \in {"empty", "too_long"}
        /\ sub[j].user # sub[i].user /\ lastConfess[sub[j].user] = NoInt

(* C35: in a confirm run of an unban, guild.unban is called exactly when   *)
(* the ban lookup found an entry or failed with an error; when the lookup  *)
(* reported the user as not banned there is no call, the outcome is a      *)
(* failure with the note "User is not banned.", and the audit sink is      *)
(* called once, with success = false, which is what the record it writes   *)
(* carries.                                                                *)
C35_UnbanByLookup ==
    kind = "unban" =>
      \A i \in ConfirmTasks :
        LET t == task[i]
            called == Occurs(t.trace, "action")
            sunk == Occurs(t.trace, "sink")
        IN /\ called => (t.banEntry \/ t.banCheckError # None)
           /\ (sunk /\ (t.banEntry \/ t.banCheckError # None)) => called
           /\ (sunk /\ ~called) =>
                 /\ ~t.banEntry /\ t.banCheckError = None
                 /\ t.attempts = 0
                 /\ ~t.success
                 /\ t.note = "User is not banned."
                 /\ Count(t.trace, "sink") = 1
                 /\ t.sink.db_ok => modLog[t.sink.db_rowid].success = 0
           /\ t.pc = "done" => sunk

(* one unban confirm found the user not banned and wrote its failure       *)
(* record, another found a ban entry and called guild.unban                *)
C35_Witness ==
    /\ kind = "unban"
    /\ \E i \in ConfirmTasks :
          /\ task[i].pc = "done" /\ ~Occurs(task[i].trace, "action")
          /\ task[i].sink.db_ok /\ task[i].note = "User is not banned."
    /\ \E i \in ConfirmTasks :
          /\ task[i].pc = "done" /\ Occurs(task[i].trace, "action")
          /\ task[i].banEntry

(* C36: the platform action of a session is performed only for an invoker  *)
(* who is authorized when confirm is pressed: once the invoker has lost    *)
(* the moderator role before any press, no run calls the platform action.  *)
C36_AuthorizedAtConfirm ==
    ~authorized => ActionCalls = 0

(* the runs to which log_moderation_action has returned its ModLogResult *)
Returned == {i \in Presses : task[i].modlog_result = "result"}

(* C37: in every ModLogResult that log_moderation_action returns, db_ok is *)
(* true iff db_error is absent, db_rowid is present iff db_ok is true, and *)
(* modlog_ok is true iff modlog_error is absent, whatever the store and    *)
(* the channel did.                                                        *)
C37_OneOfOkAndError ==
    \A i \in Returned :
        LET r == task[i].sink
        IN /\ r.db_ok <=> (r.db_error = None)
           /\ (r.db_rowid # 0) <=> r.db_ok
           /\ r.modlog_ok <=> (r.modlog_error = None)

C37_Witness ==
    /\ \E i \in Returned : task[i].sink.db_ok /\ ~task[i].sink.modlog_ok
    /\ \E i \in Returned : ~task[i].sink.db_ok /\ task[i].sink.modlog_ok

(* message k was written by a member found away who mentions themself *)
SelfMention(k) ==
    /\ Handled(k)
    /\ msg[k].row # NoStatus
    /\ msg[k].author \in msg[k].mentions

(* C38: the author's status is cleared before the mention lookup runs: a   *)
(* message by a member U found away that mentions U gets the welcome-back  *)
(* notice (when no call fails) and no mention notice naming U; and the run *)
(* for a message by a bot sends no notice and changes no status.           *)
C38_ClearedBeforeLookup ==
    /\ [](\A k \in Inbound :
            /\ (SelfMention(k) /\ faults = 0) => Welcomed(k)
            /\ SelfMention(k) => msg[k].author \notin Named(k)
            /\ (k <= nMsg /\ msg[k].author = BotUser)
                 => /\ NoticesOf(k, "welcome") = {} /\ NoticesOf(k, "mentions") = {}
                    /\ \A d \in 1..Len(dms) : dms[d].msg # k)
    /\ [][\A k \in Inbound :
            (msg'[k] # msg[k] /\ msg'[k].author = BotUser)
            => afkStatuses' = afkStatuses]_vars

(* the same, for the runs in which no call failed *)
C38_ClearedWhenNoFault ==
    [](\A k \in Inbound :
         (SelfMention(k) /\ faults = 0) => msg[k].author \notin Named(k))

====
